---- MODULE Spec2Model ----
(***************************************************************************)
(* Model of the PostgreSQL MCP server (postgres_mcp_server.py): the tools  *)
(* that build a parameterized SQL statement from structured parameters and *)
(* run it through DatabaseContext against the pooled connection.           *)
(*                                                                         *)
(* Statement text is a TLA+ string handled as Python handles str: f-string *)
(* concatenation is \o, str(int) is ToString, str.replace / str.join /     *)
(* str.strip / str.upper / str.startswith are the operators below.         *)
(* An Optional[T] parameter is <<>> (None) or <<x>> (the value x).         *)
(* A Dict[str, Any] is the sequence of its <<key, value>> items in         *)
(* iteration order.  Bound values are opaque to the server (typed Any);    *)
(* integers stand for them.                                                *)
(***************************************************************************)
EXTENDS Integers, Sequences, FiniteSets, TLC

\* ------------------------------------------------------------------ bounds
\* The items table holds at most MaxRows rows (inserts beyond it are not taken).
MaxRows == 1

\* ---------------------------------------------------------- Python strings
None == <<>>
Some(x) == <<x>>

\* s[i:] with i 0-based.
From(s, i) == SubSeq(s, i + 1, Len(s))

\* s.startswith(p)
StartsWith(s, p) == Len(s) >= Len(p) /\ SubSeq(s, 1, Len(p)) = p

\* s.endswith(p)
EndsWith(s, p) == Len(s) >= Len(p) /\ SubSeq(s, Len(s) - Len(p) + 1, Len(s)) = p

\* s.find(p) + 1: the position of the first occurrence of p in s, 0 when none.
Find(s, p) ==
    LET hits == {i \in 1..(Len(s) - Len(p) + 1) : SubSeq(s, i, i + Len(p) - 1) = p}
    IN  IF hits = {} THEN 0 ELSE CHOOSE i \in hits : \A j \in hits : i <= j

Contains(s, p) == Find(s, p) > 0

\* s.replace(old, new) for a non-empty old: every non-overlapping occurrence,
\* scanning left to right.
RECURSIVE Replace(_, _, _)
Replace(s, old, new) ==
    LET i == Find(s, old)
    IN  IF i = 0 THEN s
        ELSE SubSeq(s, 1, i - 1) \o new \o Replace(From(s, i - 1 + Len(old)), old, new)

\* sep.join(parts)
RECURSIVE Join(_, _)
Join(parts, sep) ==
    LET n == Len(parts)
        h == n \div 2
    IN  IF n = 0 THEN ""
        ELSE IF n = 1 THEN parts[1]
        ELSE Join(SubSeq(parts, 1, h), sep) \o sep \o Join(SubSeq(parts, h + 1, n), sep)

IsSpace(c) == c \in {" ", "\n", "\t", "\r"}

\* The positions of s that hold a non-blank character.
Inked(s) == {i \in 1..Len(s) : ~IsSpace(SubSeq(s, i, i))}

\* s.strip()
Strip(s) ==
    LET ink == Inked(s)
    IN  IF ink = {} THEN ""
        ELSE SubSeq(s, CHOOSE i \in ink : \A j \in ink : i <= j,
                       CHOOSE i \in ink : \A j \in ink : i >= j)

LowerCase == "abcdefghijklmnopqrstuvwxyz"
UpperCase == "ABCDEFGHIJKLMNOPQRSTUVWXYZ"

UpperChar(c) ==
    LET i == Find(LowerCase, c) IN IF i = 0 THEN c ELSE SubSeq(UpperCase, i, i)

\* s.upper()
RECURSIVE Upper(_)
Upper(s) ==
    LET n == Len(s)
        h == n \div 2
    IN  IF n = 0 THEN ""
        ELSE IF n = 1 THEN UpperChar(s)
        ELSE Upper(SubSeq(s, 1, h)) \o Upper(SubSeq(s, h + 1, n))

\* s.split(): the whitespace-separated words of s.
Words(s) ==
    LET ink == Inked(s)
        positions == [i \in 1..Len(s) |-> i]
        starts == SelectSeq(positions, LAMBDA i : i \in ink /\ i - 1 \notin ink)
        ends == SelectSeq(positions, LAMBDA i : i \in ink /\ i + 1 \notin ink)
    IN  [k \in 1..Len(starts) |-> SubSeq(s, starts[k], ends[k])]

Digits == "0123456789"
IsDigit(c) == Len(c) = 1 /\ Contains(Digits, c)

\* s.isdigit()
IsDigits(s) == Len(s) > 0 /\ \A i \in 1..Len(s) : IsDigit(SubSeq(s, i, i))

\* int(s) for a string of decimal digits.
RECURSIVE ParseInt(_)
ParseInt(s) ==
    IF s = "" THEN 0
    ELSE 10 * ParseInt(SubSeq(s, 1, Len(s) - 1)) + (Find(Digits, SubSeq(s, Len(s), Len(s))) - 1)

\* Python truthiness of an Optional[str]: neither None nor "".
TruthyStr(opt) == opt # None /\ opt[1] # ""

\* Python truthiness of an Optional[List]: neither None nor [].
TruthyList(opt) == opt # None /\ opt[1] # <<>>

Range(f) == {f[i] : i \in DOMAIN f}

\* ------------------------------------------------- the PostgreSQL backend
\* The database holds one relation, public.items(id serial, name, description).
\* db = [table |-> the rows in id order, nextId |-> the next serial id].
Columns == <<"id", "name", "description">>
Relations == {"public.items", "items"}
\* SQL NULL (Python None as a column value).
Null == -1

\* F(v), with v evaluated once.
Bind(v, F(_)) == CHOOSE y \in {F(x) : x \in {v}} : TRUE

\* A driver row as the dict the server makes of it: <<column, value>> items.
RowDict(row, cols) == [i \in 1..Len(cols) |-> <<cols[i], row[cols[i]]>>]

Punct == {"(", ")", ","}
Keywords == {"INSERT", "INTO", "VALUES", "RETURNING", "UPDATE", "SET", "WHERE", "DELETE", "FROM",
             "SELECT", "ORDER", "BY", "LIMIT", "OFFSET", "AND", "OR", "ASC", "DESC", "COUNT", "AS",
             "ILIKE"}
ClauseStarts == {"VALUES", "RETURNING", "SET", "WHERE", "FROM", "ORDER", "LIMIT", "OFFSET"}

\* The lexer: blanks separate tokens, a parenthesis or comma is a token of its
\* own, keywords are case-insensitive.
Lex(s) ==
    LET ch(i) == SubSeq(s, i, i)
        ink(i) == i >= 1 /\ i <= Len(s) /\ ~IsSpace(ch(i))
        word(i) == ink(i) /\ ch(i) \notin Punct
        positions == [i \in 1..Len(s) |-> i]
        starts == SelectSeq(positions, LAMBDA i : ink(i) /\ (~word(i) \/ ~word(i - 1)))
        ends == SelectSeq(positions, LAMBDA i : ink(i) /\ (~word(i) \/ ~word(i + 1)))
        fold(t) == Bind(Upper(t), LAMBDA u : IF u \in Keywords THEN u ELSE t)
    IN  Bind(<<starts, ends>>,
             LAMBDA se : [k \in 1..Len(se[1]) |-> fold(SubSeq(s, se[1][k], se[2][k]))])

\* The position of the first token kw in w, 0 when there is none.
Index(w, kw) ==
    LET hits == {i \in 1..Len(w) : w[i] = kw}
    IN  IF hits = {} THEN 0 ELSE CHOOSE i \in hits : \A j \in hits : i <= j

Has(w, kw) == \E i \in 1..Len(w) : w[i] = kw

\* The tokens that follow the first kw, up to the next clause keyword.
Clause(w, kw) ==
    LET from == Index(w, kw) + 1
        stops == {i \in from..Len(w) : w[i] \in ClauseStarts}
        to == IF stops = {} THEN Len(w) ELSE (CHOOSE i \in stops : \A j \in stops : i <= j) - 1
    IN  IF from = 1 THEN <<>> ELSE SubSeq(w, from, to)

\* kw and its clause, when w has the clause.
Opt(w, kw) == IF Has(w, kw) THEN <<kw>> \o Clause(w, kw) ELSE <<>>

\* `$k` alone.
IsPlaceholder(t) == StartsWith(t, "$") /\ IsDigits(From(t, 1))
Num(t) == ParseInt(From(t, 1))

\* c1 , c2 , ... : the items of a comma-separated list, <<>> when it is malformed.
Items(list) ==
    IF Len(list) % 2 = 1 /\ \A i \in 1..Len(list) : (i % 2 = 0) <=> (list[i] = ",")
    THEN [k \in 1..((Len(list) + 1) \div 2) |-> list[2 * k - 1]]
    ELSE <<>>

\* The columns of type text.
TextColumns == {"name", "description"}

\* text ILIKE pattern: % stands for any run of characters, _ for any one
\* character, letters match in either case.
RECURSIVE Like(_, _)
Like(t, p) ==
    IF p = "" THEN t = ""
    ELSE IF SubSeq(p, 1, 1) = "%" THEN \E k \in 0..Len(t) : Like(From(t, k), From(p, 1))
    ELSE /\ t # ""
         /\ SubSeq(p, 1, 1) = "_" \/ Upper(SubSeq(p, 1, 1)) = Upper(SubSeq(t, 1, 1))
         /\ Like(From(t, 1), From(p, 1))

\* col = $k | textcol ILIKE $k {AND|OR ...}: well-formed, over known columns
\* and bound parameters.
PredOK(pred, nargs) ==
    /\ Len(pred) % 4 = 3
    /\ \A i \in 1..Len(pred) :
          CASE i % 4 = 1 -> pred[i] \in Range(Columns)
            [] i % 4 = 2 -> pred[i] = "=" \/ (pred[i] = "ILIKE" /\ pred[i - 1] \in TextColumns)
            [] i % 4 = 3 -> IsPlaceholder(pred[i]) /\ Num(pred[i]) \in 1..nargs
            [] OTHER -> pred[i] \in {"AND", "OR"}

\* AND binds tighter than OR; a comparison with NULL is not true.  ILIKE reads
\* the column's value as its text.
PredHolds(pred, row, args) ==
    LET m == (Len(pred) + 1) \div 4
        atom(a) == /\ row[pred[4 * a - 3]] # Null
                   /\ IF pred[4 * a - 2] = "ILIKE"
                      THEN Like(ToString(row[pred[4 * a - 3]]), args[Num(pred[4 * a - 1])])
                      ELSE row[pred[4 * a - 3]] = args[Num(pred[4 * a - 1])]
        first(a) == a = 1 \/ pred[4 * (a - 1)] = "OR"
        group(a) == {b \in a..m : \A j \in a..(b - 1) : pred[4 * j] = "AND"}
    IN  \E a \in 1..m : first(a) /\ \A b \in group(a) : atom(b)

\* The rows of tbl the statement's WHERE clause selects (all when it has none).
Matching(w, tbl, args) ==
    IF Has(w, "WHERE")
    THEN Bind(Clause(w, "WHERE"), LAMBDA pred : SelectSeq(tbl, LAMBDA row : PredHolds(pred, row, args)))
    ELSE tbl

WhereOK(w, nargs) == Has(w, "WHERE") => PredOK(Clause(w, "WHERE"), nargs)

\* Every parameter $1..$n is referenced and n values are bound.
ArityOK(w, args) == {Num(w[i]) : i \in {j \in 1..Len(w) : IsPlaceholder(w[j])}} = 1..Len(args)

Returning(w) == Has(w, "RETURNING")

\* RETURNING * | RETURNING col , col ... : the columns returned, <<>> when malformed.
ReturningCols(w) ==
    Bind(Clause(w, "RETURNING"), LAMBDA list :
        IF list = <<"*">> THEN Columns
        ELSE IF Range(Items(list)) \subseteq Range(Columns) THEN Items(list) ELSE <<>>)

DbError(db) == [err |-> TRUE, rows |-> <<>>, status |-> "", db |-> db]
DbReply(db, rows, status) == [err |-> FALSE, rows |-> rows, status |-> status, db |-> db]

\* INSERT INTO rel ( cols ) VALUES ( $.. ) [RETURNING * | cols]
BackendInsert(db, w, args) ==
    LET cols == Items(SubSeq(w, 5, Index(w, ")") - 1))
        vals == Items(SubSeq(w, Index(w, "VALUES") + 2, Index(w, "VALUES") + 2 * Len(cols)))
        valOf(c) == IF Has(cols, c) THEN args[Num(vals[Index(cols, c)])]
                    ELSE IF c = "id" THEN db.nextId ELSE Null
        ok == /\ Len(w) >= 4 /\ w[3] \in Relations /\ cols # <<>>
              /\ w = <<"INSERT", "INTO", w[3], "(">> \o SubSeq(w, 5, Index(w, ")") - 1)
                       \o <<")", "VALUES", "(">>
                       \o SubSeq(w, Index(w, "VALUES") + 2, Index(w, "VALUES") + 2 * Len(cols))
                       \o <<")">> \o Opt(w, "RETURNING")
              /\ Returning(w) => ReturningCols(w) # <<>>
              /\ Range(cols) \subseteq Range(Columns)
              /\ Cardinality(Range(cols)) = Len(cols)
              /\ Len(vals) = Len(cols)
              /\ \A i \in 1..Len(vals) : IsPlaceholder(vals[i])
              /\ ArityOK(w, args)
              /\ \A i \in 1..Len(db.table) : db.table[i].id # valOf("id")
    IN  IF ~ok THEN DbError(db)
        ELSE Bind([c \in Range(Columns) |-> valOf(c)], LAMBDA row :
                 DbReply([table |-> Append(db.table, row),
                          nextId |-> IF row.id = db.nextId THEN db.nextId + 1 ELSE db.nextId],
                         IF Returning(w) THEN <<RowDict(row, ReturningCols(w))>> ELSE <<>>,
                         "INSERT 0 1"))

\* UPDATE rel SET col = $k , ... [WHERE pred] [RETURNING * | cols]
BackendUpdate(db, w, args) ==
    LET sets == Clause(w, "SET")
        target(k) == sets[4 * k - 3]
        assigned == {target(k) : k \in 1..((Len(sets) + 1) \div 4)}
        newVal(row, c) ==
            IF c \in assigned
            THEN args[Num(sets[4 * (CHOOSE k \in 1..((Len(sets) + 1) \div 4) : target(k) = c) - 1])]
            ELSE row[c]
        ok == /\ Len(w) >= 3 /\ w[2] \in Relations
              /\ w = <<"UPDATE", w[2], "SET">> \o sets \o Opt(w, "WHERE")
                       \o Opt(w, "RETURNING")
              /\ Returning(w) => ReturningCols(w) # <<>>
              /\ Len(sets) % 4 = 3
              /\ \A i \in 1..Len(sets) :
                    CASE i % 4 = 1 -> sets[i] \in Range(Columns)
                      [] i % 4 = 2 -> sets[i] = "="
                      [] i % 4 = 3 -> IsPlaceholder(sets[i])
                      [] OTHER -> sets[i] = ","
              /\ WhereOK(w, Len(args))
              /\ ArityOK(w, args)
    IN  IF ~ok THEN DbError(db)
        ELSE Bind(Matching(w, db.table, args), LAMBDA hit :
                 Bind([i \in 1..Len(db.table) |->
                          IF Has(hit, db.table[i])
                          THEN [c \in Range(Columns) |-> newVal(db.table[i], c)]
                          ELSE db.table[i]], LAMBDA tbl :
                     DbReply([db EXCEPT !.table = tbl],
                             IF Returning(w)
                             THEN [i \in 1..Len(hit) |->
                                      RowDict([c \in Range(Columns) |-> newVal(hit[i], c)], ReturningCols(w))]
                             ELSE <<>>,
                             "UPDATE " \o ToString(Len(hit)))))

\* DELETE FROM rel [WHERE pred] [RETURNING * | cols]
BackendDelete(db, w, args) ==
    LET ok == /\ Len(w) >= 3 /\ w[3] \in Relations
              /\ w = <<"DELETE", "FROM", w[3]>> \o Opt(w, "WHERE")
                       \o Opt(w, "RETURNING")
              /\ Returning(w) => ReturningCols(w) # <<>>
              /\ WhereOK(w, Len(args))
              /\ ArityOK(w, args)
    IN  IF ~ok THEN DbError(db)
        ELSE Bind(Matching(w, db.table, args), LAMBDA hit :
                 DbReply([db EXCEPT !.table = SelectSeq(db.table, LAMBDA row : ~Has(hit, row))],
                         IF Returning(w) THEN [i \in 1..Len(hit) |-> RowDict(hit[i], ReturningCols(w))]
                         ELSE <<>>,
                         "DELETE " \o ToString(Len(hit))))

\* rows sorted on column c, ascending or descending, ties in table order.
RECURSIVE SortBy(_, _, _)
SortBy(rows, c, desc) ==
    IF rows = <<>> THEN <<>>
    ELSE LET first(i) == \A j \in 1..Len(rows) :
                            \/ (IF desc THEN rows[i][c] > rows[j][c] ELSE rows[i][c] < rows[j][c])
                            \/ (rows[i][c] = rows[j][c] /\ i <= j)
         IN  Bind(CHOOSE i \in 1..Len(rows) : first(i), LAMBDA m :
                 <<rows[m]>> \o SortBy([k \in 1..(Len(rows) - 1) |-> IF k < m THEN rows[k] ELSE rows[k + 1]],
                                       c, desc))

\* SELECT list FROM rel [WHERE pred] [ORDER BY col [ASC|DESC]] [LIMIT $k] [OFFSET $k]
BackendSelect(db, w, args) ==
    LET list == SubSeq(w, 2, Index(w, "FROM") - 1)
        from == Clause(w, "FROM")
        isCount == Len(list) >= 4 /\ SubSeq(list, 1, 4) = <<"COUNT", "(", "*", ")">>
        countName == IF Len(list) = 6 THEN list[6] ELSE "count"
        cols == IF list = <<"*">> THEN Columns ELSE Items(list)
        order == Clause(w, "ORDER")
        limit == Clause(w, "LIMIT")
        offset == Clause(w, "OFFSET")
        ok == /\ Has(w, "FROM") /\ Len(from) = 1 /\ from[1] \in Relations
              /\ w = <<"SELECT">> \o list \o <<"FROM">> \o from \o Opt(w, "WHERE")
                       \o Opt(w, "ORDER") \o Opt(w, "LIMIT") \o Opt(w, "OFFSET")
              /\ IF isCount THEN Len(list) = 4 \/ (Len(list) = 6 /\ list[5] = "AS")
                 ELSE cols # <<>> /\ Range(cols) \subseteq Range(Columns)
              /\ WhereOK(w, Len(args))
              /\ Has(w, "ORDER") => /\ Len(order) \in {2, 3}
                                    /\ order[1] = "BY"
                                    /\ order[2] \in Range(Columns)
                                    /\ Len(order) = 3 => order[3] \in {"ASC", "DESC"}
              /\ Has(w, "LIMIT") => Len(limit) = 1 /\ IsPlaceholder(limit[1])
              /\ Has(w, "OFFSET") => Len(offset) = 1 /\ IsPlaceholder(offset[1])
              /\ ArityOK(w, args)
              /\ Has(w, "LIMIT") => args[Num(limit[1])] >= 0
              /\ Has(w, "OFFSET") => args[Num(offset[1])] >= 0
        page(hit) ==
            LET sorted == IF Has(w, "ORDER")
                          THEN SortBy(hit, order[2], Len(order) = 3 /\ order[3] = "DESC") ELSE hit
                skip == IF Has(w, "OFFSET") THEN args[Num(offset[1])] ELSE 0
                to == IF Has(w, "LIMIT") /\ skip + args[Num(limit[1])] < Len(hit)
                      THEN skip + args[Num(limit[1])] ELSE Len(hit)
            IN  SubSeq(sorted, skip + 1, to)
    IN  IF ~ok THEN DbError(db)
        ELSE Bind(Matching(w, db.table, args), LAMBDA hit :
                 IF isCount THEN DbReply(db, << <<<<countName, Len(hit)>>>> >>, "SELECT 1")
                 ELSE Bind(page(hit), LAMBDA rows :
                          DbReply(db, [i \in 1..Len(rows) |-> RowDict(rows[i], cols)],
                                  "SELECT " \o ToString(Len(rows)))))

\* The system catalogs of this database.  public.items has a serial primary
\* key; every other name is absent from the catalogs.
ColumnRows ==
    << [table_schema |-> "public", table_name |-> "items", column_name |-> "id",
        data_type |-> "integer", is_nullable |-> "NO",
        column_default |-> "nextval('items_id_seq'::regclass)",
        character_maximum_length |-> Null, numeric_precision |-> 32, numeric_scale |-> 0,
        ordinal_position |-> 1],
       [table_schema |-> "public", table_name |-> "items", column_name |-> "name",
        data_type |-> "text", is_nullable |-> "YES", column_default |-> Null,
        character_maximum_length |-> Null, numeric_precision |-> Null, numeric_scale |-> Null,
        ordinal_position |-> 2],
       [table_schema |-> "public", table_name |-> "items", column_name |-> "description",
        data_type |-> "text", is_nullable |-> "YES", column_default |-> Null,
        character_maximum_length |-> Null, numeric_precision |-> Null, numeric_scale |-> Null,
        ordinal_position |-> 3] >>
ConstraintRows ==
    << [constraint_name |-> "items_pkey", table_schema |-> "public", table_name |-> "items",
        constraint_type |-> "PRIMARY KEY"] >>
ConstraintColumnRows ==
    << [table_schema |-> "public", table_name |-> "items", column_name |-> "id",
        constraint_name |-> "items_pkey"] >>
IndexRows ==
    << [schemaname |-> "public", tablename |-> "items", indexname |-> "items_pkey",
        indexdef |-> "CREATE UNIQUE INDEX items_pkey ON public.items USING btree (id)"] >>
TableRows ==
    << [schemaname |-> "public", tablename |-> "items", tableowner |-> "postgres",
        hasindexes |-> TRUE, hasrules |-> FALSE, hastriggers |-> FALSE] >>
Catalogs ==
    [r \in {"information_schema.columns", "information_schema.table_constraints",
            "information_schema.constraint_column_usage", "pg_indexes", "pg_tables"} |->
        CASE r = "information_schema.columns" -> ColumnRows
          [] r = "information_schema.table_constraints" -> ConstraintRows
          [] r = "information_schema.constraint_column_usage" -> ConstraintColumnRows
          [] r = "pg_indexes" -> IndexRows
          [] r = "pg_tables" -> TableRows]

\* alias.column: its alias ("" when it has none) and its column.
Qualifier(t) == IF Contains(t, ".") THEN SubSeq(t, 1, Find(t, ".") - 1) ELSE ""
Unqualified(t) == IF Contains(t, ".") THEN From(t, Find(t, ".")) ELSE t

\* The rows of A x B, in order.
Pairs(A, B) ==
    [k \in 1..(Len(A) * Len(B)) |-> <<A[((k - 1) \div Len(B)) + 1], B[((k - 1) % Len(B)) + 1]>>]

\* SELECT cols FROM catalog [alias JOIN catalog alias ON ref = ref]
\*   WHERE ref = $k {AND ref = $k} [ORDER BY col]
\* A column reference names a column of exactly one relation of the FROM clause;
\* a name that two of them have is ambiguous and the statement is rejected.
\* The catalogs are kept in the order the statements ask for.
CatalogReply(db, w, cols, from, pred, args) ==
    LET joined == /\ Len(from) = 9 /\ Upper(from[3]) = "JOIN" /\ Upper(from[6]) = "ON"
                  /\ from[8] = "=" /\ from[4] \in DOMAIN Catalogs
        srcs == IF joined
                THEN << [alias |-> from[2], rel |-> from[1]], [alias |-> from[5], rel |-> from[4]] >>
                ELSE << [alias |-> "", rel |-> from[1]] >>
        fieldsOf(k) == DOMAIN Catalogs[srcs[k].rel][1]
        owners(t) == Bind(<<Qualifier(t), Unqualified(t)>>, LAMBDA qc :
                         {k \in 1..Len(srcs) : qc[2] \in fieldsOf(k) /\ qc[1] \in {"", srcs[k].alias}})
        resolved(t) == Cardinality(owners(t)) = 1
        value(combo, t) == combo[CHOOSE k \in owners(t) : TRUE][Unqualified(t)]
        m == (Len(pred) + 1) \div 4
        ok == /\ joined \/ Len(from) = 1
              /\ cols # <<>> /\ \A i \in 1..Len(cols) : resolved(cols[i])
              /\ joined => resolved(from[7]) /\ resolved(from[9])
              /\ Has(w, "WHERE") /\ Len(pred) % 4 = 3
              /\ \A i \in 1..Len(pred) :
                    CASE i % 4 = 1 -> resolved(pred[i])
                      [] i % 4 = 2 -> pred[i] = "="
                      [] i % 4 = 3 -> IsPlaceholder(pred[i]) /\ Num(pred[i]) \in 1..Len(args)
                      [] OTHER -> pred[i] = "AND"
              /\ ArityOK(w, args)
        combos == IF joined
                  THEN SelectSeq(Pairs(Catalogs[srcs[1].rel], Catalogs[srcs[2].rel]),
                                 LAMBDA combo : value(combo, from[7]) = value(combo, from[9]))
                  ELSE [k \in 1..Len(Catalogs[srcs[1].rel]) |-> <<Catalogs[srcs[1].rel][k]>>]
        holds(combo) == \A a \in 1..m : value(combo, pred[4 * a - 3]) = args[Num(pred[4 * a - 1])]
    IN  IF ~ok THEN DbError(db)
        ELSE Bind(SelectSeq(combos, holds), LAMBDA hit :
                 DbReply(db, [i \in 1..Len(hit) |->
                                 [j \in 1..Len(cols) |-> <<Unqualified(cols[j]), value(hit[i], cols[j])>>]],
                         "SELECT " \o ToString(Len(hit))))

BackendCatalog(db, w, args) ==
    Bind(<<Items(SubSeq(w, 2, Index(w, "FROM") - 1)), Clause(w, "FROM"), Clause(w, "WHERE")>>,
         LAMBDA q : CatalogReply(db, w, q[1], q[2], q[3], args))

\* SELECT pg_size_pretty(pg_total_relation_size($1)) as total_size, ... : the
\* parameter names a relation (regclass); a name that is none is an error.
BackendSize(db, w, args) ==
    IF Len(w) >= 2 /\ w[2] = "pg_size_pretty" /\ ArityOK(w, args)
       /\ Len(args) = 1 /\ args[1] \in Relations
    THEN DbReply(db, << << <<"total_size", "16 kB">>, <<"table_size", "8192 bytes">>,
                           <<"index_size", "8192 bytes">> >> >>, "SELECT 1")
    ELSE DbError(db)

\* The database the pool is connected to (PG_DATABASE).
Database == "postgres"

\* SELECT version() as version, and
\* SELECT pg_size_pretty(pg_database_size($1)) as size: the parameter names a
\* database; a name that is none is an error.
BackendInfo(db, w, args) ==
    IF w[2] = "version" /\ args = <<>>
    THEN DbReply(db, << << <<"version", "PostgreSQL">> >> >>, "SELECT 1")
    ELSE IF Has(w, "pg_database_size") /\ ArityOK(w, args) /\ args = <<Database>>
    THEN DbReply(db, << << <<"size", "8 MB">> >> >>, "SELECT 1")
    ELSE DbError(db)

\* What the backend does with one statement and its bound values: the reply
\* rows (dicts), the command tag, the database afterwards; or an error.
Backend(db, text, args) ==
    Bind(Lex(text), LAMBDA w :
        IF w = <<>> THEN DbError(db)
        ELSE IF w[1] = "INSERT" THEN BackendInsert(db, w, args)
        ELSE IF w[1] = "UPDATE" THEN BackendUpdate(db, w, args)
        ELSE IF w[1] = "DELETE" THEN BackendDelete(db, w, args)
        ELSE IF w[1] = "SELECT" THEN
            IF ~Has(w, "FROM")
            THEN (IF Len(w) >= 2 /\ (w[2] = "version" \/ Has(w, "pg_database_size"))
                  THEN BackendInfo(db, w, args)
                  ELSE BackendSize(db, w, args))
            ELSE IF Clause(w, "FROM") # <<>> /\ Clause(w, "FROM")[1] \in DOMAIN Catalogs
                 THEN BackendCatalog(db, w, args)
            ELSE BackendSelect(db, w, args)
        ELSE DbError(db))

\* --------------------------------------------------------- DatabaseContext
\* Each method acquires one pooled connection, sends one statement, and
\* releases the connection.  stmt records what reached the driver.
Stmt(via, query, args) == [via |-> via, text |-> query, args |-> args]

\* conn.fetch: every row as a dict.
execute_query(db, query, args) ==
    Bind(Backend(db, query, args), LAMBDA r :
        [err |-> r.err, value |-> r.rows, db |-> r.db, stmt |-> Stmt("execute_query", query, args)])

\* conn.fetchrow: the first row as a dict, or None.
execute_single(db, query, args) ==
    Bind(Backend(db, query, args), LAMBDA r :
        [err |-> r.err, value |-> IF r.rows = <<>> THEN None ELSE Some(r.rows[1]),
         db |-> r.db, stmt |-> Stmt("execute_single", query, args)])

\* conn.execute: the command tag.
execute_command(db, query, args) ==
    Bind(Backend(db, query, args), LAMBDA r :
        [err |-> r.err, value |-> r.status, db |-> r.db, stmt |-> Stmt("execute_command", query, args)])

\* Values of the modelled columns are integers, which serialize_value passes through;
\* a dict is rebuilt item by item.
serialize_value(record) == [i \in 1..Len(record) |-> <<record[i][1], record[i][2]>>]

\* dict[key]
Get(dict, key) == dict[CHOOSE i \in 1..Len(dict) : dict[i][1] = key][2]

\* int(result.split()[-1])
LastInt(result) == Bind(Words(result), LAMBDA w : ParseInt(w[Len(w)]))

\* ------------------------------------------------------- handler outcomes
\* kind: "ok" (a response), "ValueError" (raised by the handler's own checks),
\* "DatabaseError" (raised by the driver).  sent: the statements that reached
\* the driver, in order.  acquired: connections taken from the pool.
Returned(body, sent, db) ==
    [kind |-> "ok", body |-> body, sent |-> sent, acquired |-> Len(sent), db |-> db]
Raised(message, db) ==
    [kind |-> "ValueError", body |-> message, sent |-> <<>>, acquired |-> 0, db |-> db]
Failed(sent, db) ==
    [kind |-> "DatabaseError", body |-> "", sent |-> sent, acquired |-> Len(sent), db |-> db]

\* ----------------------------------------------------------- insert_record
InsertColumns(data) == [i \in 1..Len(data) |-> data[i][1]]
\* As InsertPlaceholders, numbered by enumerate's index.
InsertPlaceholders_FromZero(data) ==
    [i \in 1..Len(InsertColumns(data)) |-> "$" \o ToString(i - 1)]

InsertPlaceholders(data) == [i \in 1..Len(InsertColumns(data)) |-> "$" \o ToString(i)]
InsertValues(data) == [i \in 1..Len(data) |-> data[i][2]]

InsertBaseQuery(c) ==
    "\n        INSERT INTO " \o c.schema \o "." \o c.table_name
        \o " (" \o Join(InsertColumns(c.data), ", ") \o ")"
        \o "\n        VALUES (" \o Join(InsertPlaceholders(c.data), ", ") \o ")\n    "

InsertQuery(c) == IF c.return_record THEN InsertBaseQuery(c) \o " RETURNING *" ELSE InsertBaseQuery(c)

\* As InsertRejects, without the check.
InsertRejects_Never(c) == FALSE

InsertRejects(c) == c.data = <<>>

insert_record(c, db) ==
    IF InsertRejects(c) THEN Raised("Data dictionary cannot be empty", db)
    ELSE IF c.return_record
    THEN Bind(execute_single(db, InsertQuery(c), InsertValues(c.data)), LAMBDA r :
             IF r.err THEN Failed(<<r.stmt>>, db)
             ELSE IF r.value # None
             THEN Returned([success |-> TRUE, record |-> serialize_value(r.value[1])], <<r.stmt>>, r.db)
             ELSE Returned([success |-> FALSE, error |-> "Failed to insert record"], <<r.stmt>>, r.db))
    ELSE Bind(execute_command(db, InsertQuery(c), InsertValues(c.data)), LAMBDA r :
             IF r.err THEN Failed(<<r.stmt>>, db)
             ELSE Returned([success |-> TRUE, rows_affected |-> LastInt(r.value)], <<r.stmt>>, r.db))

\* ---------------------------------------------------------- select_records
SelectHasWhere(c) == TruthyStr(c.where_clause)

\* As SelectWhereParams, the values never added to params.
SelectWhereParams_Dropped(c) == <<>>

SelectWhereParams(c) ==
    IF SelectHasWhere(c) /\ TruthyList(c.where_params) THEN c.where_params[1] ELSE <<>>

\* As SelectHasLimit, tested with `if limit:`.
SelectHasLimit_Truthy(c) == c.limit # None /\ c.limit[1] # 0

SelectHasLimit(c) == c.limit # None
SelectHasOffset(c) == c.offset # None

\* As SelectBuild, OFFSET numbered from the predicate's values alone.
SelectBuild_OffsetFromPredicate(c) ==
    LET select_columns == IF TruthyList(c.columns) THEN Join(c.columns[1], ", ") ELSE "*"
        q0 == "SELECT " \o select_columns \o " FROM " \o c.schema \o "." \o c.table_name
        q1 == IF SelectHasWhere(c) THEN q0 \o " WHERE " \o c.where_clause[1] ELSE q0
        p1 == SelectWhereParams(c)
        q2 == IF TruthyStr(c.order_by) THEN q1 \o " ORDER BY " \o c.order_by[1] ELSE q1
        q3 == IF SelectHasLimit(c) THEN q2 \o " LIMIT $" \o ToString(Len(p1) + 1) ELSE q2
        p3 == IF SelectHasLimit(c) THEN Append(p1, c.limit[1]) ELSE p1
        q4 == IF SelectHasOffset(c) THEN q3 \o " OFFSET $" \o ToString(Len(p1) + 1) ELSE q3
        p4 == IF SelectHasOffset(c) THEN Append(p3, c.offset[1]) ELSE p3
    IN  [query |-> q4, params |-> p4]

\* The statement text and its bound values, built together in one pass.
SelectBuild(c) ==
    LET select_columns == IF TruthyList(c.columns) THEN Join(c.columns[1], ", ") ELSE "*"
        q0 == "SELECT " \o select_columns \o " FROM " \o c.schema \o "." \o c.table_name
        q1 == IF SelectHasWhere(c) THEN q0 \o " WHERE " \o c.where_clause[1] ELSE q0
        p1 == SelectWhereParams(c)
        q2 == IF TruthyStr(c.order_by) THEN q1 \o " ORDER BY " \o c.order_by[1] ELSE q1
        q3 == IF SelectHasLimit(c) THEN q2 \o " LIMIT $" \o ToString(Len(p1) + 1) ELSE q2
        p3 == IF SelectHasLimit(c) THEN Append(p1, c.limit[1]) ELSE p1
        q4 == IF SelectHasOffset(c) THEN q3 \o " OFFSET $" \o ToString(Len(p3) + 1) ELSE q3
        p4 == IF SelectHasOffset(c) THEN Append(p3, c.offset[1]) ELSE p3
    IN  [query |-> q4, params |-> p4]

SelectQuery(c) == SelectBuild(c).query
SelectParams(c) == SelectBuild(c).params

CountQuery(c) ==
    LET q0 == "SELECT COUNT(*) as total FROM " \o c.schema \o "." \o c.table_name
    IN  IF TruthyStr(c.where_clause) THEN q0 \o " WHERE " \o c.where_clause[1] ELSE q0

\* As CountParams, the row fetch's list reused.
CountParams_Reused(c) == SelectParams(c)

CountParams(c) ==
    IF TruthyStr(c.where_clause)
    THEN (IF TruthyList(c.where_params) THEN c.where_params[1] ELSE <<>>)
    ELSE <<>>

\* As select_records, total_count taken from the page fetched.
select_records_PageCount(c, db) ==
    Bind(execute_query(db, SelectQuery(c), SelectParams(c)), LAMBDA r1 :
        IF r1.err THEN Failed(<<r1.stmt>>, db)
        ELSE Bind(execute_single(r1.db, CountQuery(c), CountParams(c)), LAMBDA r2 :
            IF r2.err THEN Failed(<<r1.stmt, r2.stmt>>, r1.db)
            ELSE Returned([records |-> [i \in 1..Len(r1.value) |-> serialize_value(r1.value[i])],
                           total_count |-> Len(r1.value),
                           returned_count |-> Len(r1.value),
                           limit |-> c.limit,
                           offset |-> IF c.offset # None /\ c.offset[1] # 0 THEN c.offset[1] ELSE 0],
                          <<r1.stmt, r2.stmt>>, r2.db)))

\* As select_records, a failed count swallowed and total_count defaulted.
select_records_DefaultTotal(c, db) ==
    Bind(execute_query(db, SelectQuery(c), SelectParams(c)), LAMBDA r1 :
        IF r1.err THEN Failed(<<r1.stmt>>, db)
        ELSE Bind(execute_single(r1.db, CountQuery(c), CountParams(c)), LAMBDA r2 :
            Returned([records |-> [i \in 1..Len(r1.value) |-> serialize_value(r1.value[i])],
                      total_count |-> IF ~r2.err /\ r2.value # None
                                      THEN Get(r2.value[1], "total") ELSE 0,
                      returned_count |-> Len(r1.value),
                      limit |-> c.limit,
                      offset |-> IF c.offset # None /\ c.offset[1] # 0 THEN c.offset[1] ELSE 0],
                     <<r1.stmt, r2.stmt>>, r1.db)))

\* The row fetch, then the count for the pagination info: two statements, each
\* on a connection of its own.
select_records(c, db) ==
    Bind(execute_query(db, SelectQuery(c), SelectParams(c)), LAMBDA r1 :
        IF r1.err THEN Failed(<<r1.stmt>>, db)
        ELSE Bind(execute_single(r1.db, CountQuery(c), CountParams(c)), LAMBDA r2 :
            IF r2.err THEN Failed(<<r1.stmt, r2.stmt>>, r1.db)
            ELSE Returned([records |-> [i \in 1..Len(r1.value) |-> serialize_value(r1.value[i])],
                           total_count |-> IF r2.value # None THEN Get(r2.value[1], "total") ELSE 0,
                           returned_count |-> Len(r1.value),
                           limit |-> c.limit,
                           offset |-> IF c.offset # None /\ c.offset[1] # 0 THEN c.offset[1] ELSE 0],
                          <<r1.stmt, r2.stmt>>, r2.db)))

\* ---------------------------------------------------------- update_records
\* The checks made before anything is built: "" when the call passes them.
\* As UpdateRejects, the predicate tested with `is None` instead of truthiness.
UpdateRejects_IsNone(c) ==
    IF c.data = <<>> THEN "Data dictionary cannot be empty"
    ELSE IF c.where_clause = None
    THEN "WHERE clause is required for UPDATE operations for safety"
    ELSE ""

UpdateRejects(c) ==
    IF c.data = <<>> THEN "Data dictionary cannot be empty"
    ELSE IF ~TruthyStr(c.where_clause)
    THEN "WHERE clause is required for UPDATE operations for safety"
    ELSE ""

UpdateSetClauses(data) == [i \in 1..Len(data) |-> data[i][1] \o " = $" \o ToString(i)]

\* values: the SET values, then values.extend(where_params).
UpdateValues(c) == [i \in 1..Len(c.data) |-> c.data[i][2]] \o c.where_params

\* for i, _ in enumerate(where_params):
\*     adjusted_where = adjusted_where.replace(f"${i+1}", f"${param_index + i}")
\* from iteration i on, over n = len(where_params) iterations.
RECURSIVE AdjustLoop(_, _, _, _)
AdjustLoop(adjusted_where, i, n, param_index) ==
    IF i >= n THEN adjusted_where
    ELSE AdjustLoop(Replace(adjusted_where, "$" \o ToString(i + 1), "$" \o ToString(param_index + i)),
                    i + 1, n, param_index)

\* param_index after the SET loop is len(data) + 1.
AdjustedWhere_Verbatim(where_clause, where_params, param_index) == where_clause
AdjustedWhere(where_clause, where_params, param_index) ==
    AdjustLoop(where_clause, 0, Len(where_params), param_index)

UpdateBaseQuery(c) ==
    "\n        UPDATE " \o c.schema \o "." \o c.table_name
        \o "\n        SET " \o Join(UpdateSetClauses(c.data), ", ")
        \o "\n        WHERE " \o AdjustedWhere(c.where_clause[1], c.where_params, Len(c.data) + 1)
        \o "\n    "

UpdateQuery(c) == IF c.return_records THEN UpdateBaseQuery(c) \o " RETURNING *" ELSE UpdateBaseQuery(c)

update_records(c, db) ==
    IF UpdateRejects(c) # "" THEN Raised(UpdateRejects(c), db)
    ELSE IF c.return_records
    THEN Bind(execute_query(db, UpdateQuery(c), UpdateValues(c)), LAMBDA r :
             IF r.err THEN Failed(<<r.stmt>>, db)
             ELSE Returned([success |-> TRUE,
                            records |-> [i \in 1..Len(r.value) |-> serialize_value(r.value[i])],
                            rows_affected |-> Len(r.value)], <<r.stmt>>, r.db))
    ELSE Bind(execute_command(db, UpdateQuery(c), UpdateValues(c)), LAMBDA r :
             IF r.err THEN Failed(<<r.stmt>>, db)
             ELSE Returned([success |-> TRUE, rows_affected |-> LastInt(r.value)], <<r.stmt>>, r.db))

\* ---------------------------------------------------------- delete_records
\* As DeleteRejects, the predicate tested with `is None` instead of truthiness.
DeleteRejects_IsNone(c) ==
    IF c.where_clause = None
    THEN "WHERE clause is required for DELETE operations for safety"
    ELSE ""

DeleteRejects(c) ==
    IF ~TruthyStr(c.where_clause)
    THEN "WHERE clause is required for DELETE operations for safety"
    ELSE ""

DeleteBaseQuery(c) ==
    "DELETE FROM " \o c.schema \o "." \o c.table_name \o " WHERE " \o c.where_clause[1]

DeleteQuery(c) == IF c.return_records THEN DeleteBaseQuery(c) \o " RETURNING *" ELSE DeleteBaseQuery(c)

delete_records(c, db) ==
    IF DeleteRejects(c) # "" THEN Raised(DeleteRejects(c), db)
    ELSE IF c.return_records
    THEN Bind(execute_query(db, DeleteQuery(c), c.where_params), LAMBDA r :
             IF r.err THEN Failed(<<r.stmt>>, db)
             ELSE Returned([success |-> TRUE,
                            records |-> [i \in 1..Len(r.value) |-> serialize_value(r.value[i])],
                            rows_affected |-> Len(r.value)], <<r.stmt>>, r.db))
    ELSE Bind(execute_command(db, DeleteQuery(c), c.where_params), LAMBDA r :
             IF r.err THEN Failed(<<r.stmt>>, db)
             ELSE Returned([success |-> TRUE, rows_affected |-> LastInt(r.value)], <<r.stmt>>, r.db))

\* ---------------------------------------------------- execute_custom_query
\* query_type.upper() == "SELECT"
CustomIsSelect(c) == Upper(c.query_type) = "SELECT"

\* As CustomRejects, without the SELECT check.
CustomRejects_EmptyOnly(c) ==
    IF Strip(c.query) = "" THEN "Query cannot be empty" ELSE ""

CustomRejects(c) ==
    IF Strip(c.query) = "" THEN "Query cannot be empty"
    ELSE IF CustomIsSelect(c) /\ ~StartsWith(Upper(Strip(c.query)), "SELECT")
    THEN "Query must start with SELECT for query_type='SELECT'"
    ELSE ""

\* params or []
CustomParams(c) == IF TruthyList(c.params) THEN c.params[1] ELSE <<>>

execute_custom_query(c, db) ==
    IF CustomRejects(c) # "" THEN Raised(CustomRejects(c), db)
    ELSE IF CustomIsSelect(c)
    THEN Bind(execute_query(db, c.query, CustomParams(c)), LAMBDA r :
             IF r.err THEN Failed(<<r.stmt>>, db)
             ELSE Returned([success |-> TRUE,
                            records |-> [i \in 1..Len(r.value) |-> serialize_value(r.value[i])],
                            record_count |-> Len(r.value)], <<r.stmt>>, r.db))
    ELSE Bind(execute_command(db, c.query, CustomParams(c)), LAMBDA r :
             IF r.err THEN Failed(<<r.stmt>>, db)
             ELSE Bind(Words(r.value)[Len(Words(r.value))], LAMBDA last :
                      Returned([success |-> TRUE, result |-> r.value,
                                rows_affected |-> IF IsDigits(last) THEN ParseInt(last) ELSE 0],
                               <<r.stmt>>, r.db)))

\* ---------------------------------------------------------- describe_table
ColumnsQuery ==
    "\n"
        \o "        SELECT \n"
        \o "            column_name,\n"
        \o "            data_type,\n"
        \o "            is_nullable,\n"
        \o "            column_default,\n"
        \o "            character_maximum_length,\n"
        \o "            numeric_precision,\n"
        \o "            numeric_scale,\n"
        \o "            ordinal_position\n"
        \o "        FROM information_schema.columns \n"
        \o "        WHERE table_schema = $1 AND table_name = $2\n"
        \o "        ORDER BY ordinal_position\n"
        \o "    "
ConstraintsQuery ==
    "\n"
        \o "        SELECT \n"
        \o "            constraint_name,\n"
        \o "            constraint_type,\n"
        \o "            column_name\n"
        \o "        FROM information_schema.table_constraints tc\n"
        \o "        JOIN information_schema.constraint_column_usage ccu \n"
        \o "            ON tc.constraint_name = ccu.constraint_name\n"
        \o "        WHERE tc.table_schema = $1 AND tc.table_name = $2\n"
        \o "    "
IndexesQuery ==
    "\n"
        \o "        SELECT \n"
        \o "            indexname,\n"
        \o "            indexdef\n"
        \o "        FROM pg_indexes \n"
        \o "        WHERE schemaname = $1 AND tablename = $2\n"
        \o "    "

\* f"Table '{schema}.{table_name}' not found"
NotFound(c) == "Table '" \o c.schema \o "." \o c.table_name \o "' not found"

\* A handler's own check raises after the statements in sent have run.
RaisedAfter(message, sent, db) ==
    [kind |-> "ValueError", body |-> message, sent |-> sent, acquired |-> Len(sent), db |-> db]

\* `if not columns`
DescribeNotFound(columns) == ~TruthyList(columns)

\* The three catalog statements run first; the check on the columns follows.
describe_table(c, db) ==
    Bind(execute_query(db, ColumnsQuery, <<c.schema, c.table_name>>), LAMBDA r1 :
        IF r1.err THEN Failed(<<r1.stmt>>, db)
        ELSE Bind(execute_query(r1.db, ConstraintsQuery, <<c.schema, c.table_name>>), LAMBDA r2 :
            IF r2.err THEN Failed(<<r1.stmt, r2.stmt>>, r1.db)
            ELSE Bind(execute_query(r2.db, IndexesQuery, <<c.schema, c.table_name>>), LAMBDA r3 :
                IF r3.err THEN Failed(<<r1.stmt, r2.stmt, r3.stmt>>, r2.db)
                ELSE IF DescribeNotFound(r1.value)
                THEN RaisedAfter(NotFound(c), <<r1.stmt, r2.stmt, r3.stmt>>, r3.db)
                ELSE Returned([table_name |-> c.table_name, schema |-> c.schema,
                               columns |-> r1.value, constraints |-> r2.value,
                               indexes |-> r3.value],
                              <<r1.stmt, r2.stmt, r3.stmt>>, r3.db))))

\* ---------------------------------------------------- get_table_statistics
TableInfoQuery ==
    "\n"
        \o "        SELECT\n"
        \o "            schemaname,\n"
        \o "            tablename,\n"
        \o "            tableowner,\n"
        \o "            hasindexes,\n"
        \o "            hasrules,\n"
        \o "            hastriggers\n"
        \o "        FROM pg_tables\n"
        \o "        WHERE schemaname = $1 AND tablename = $2\n"
        \o "    "
RowCountQuery(c) == "SELECT COUNT(*) as row_count FROM " \o c.schema \o "." \o c.table_name
SizeQuery ==
    "\n"
        \o "        SELECT\n"
        \o "            pg_size_pretty(pg_total_relation_size($1)) as total_size,\n"
        \o "            pg_size_pretty(pg_relation_size($1)) as table_size,\n"
        \o "            pg_size_pretty(pg_total_relation_size($1) - pg_relation_size($1)) as index_size\n"
        \o "    "

\* The catalog row, the row count and the sizes are fetched in that order; the
\* check on the catalog row follows the three statements.
get_table_statistics(c, db) ==
    Bind(execute_single(db, TableInfoQuery, <<c.schema, c.table_name>>), LAMBDA r1 :
        IF r1.err THEN Failed(<<r1.stmt>>, db)
        ELSE Bind(execute_single(r1.db, RowCountQuery(c), <<>>), LAMBDA r2 :
            IF r2.err THEN Failed(<<r1.stmt, r2.stmt>>, r1.db)
            ELSE Bind(execute_single(r2.db, SizeQuery, <<c.schema \o "." \o c.table_name>>), LAMBDA r3 :
                IF r3.err THEN Failed(<<r1.stmt, r2.stmt, r3.stmt>>, r2.db)
                ELSE IF r1.value = None
                THEN RaisedAfter(NotFound(c), <<r1.stmt, r2.stmt, r3.stmt>>, r3.db)
                ELSE Returned([table_info |-> r1.value[1],
                               row_count |-> IF r2.value # None
                                             THEN Get(r2.value[1], "row_count") ELSE 0,
                               size_info |-> IF r3.value # None THEN r3.value[1] ELSE <<>>],
                              <<r1.stmt, r2.stmt, r3.stmt>>, r3.db))))

\* ------------------------------------------- the JSON-RPC item methods
\* server.py: create_item, read_item and delete_item over the items table,
\* each one conn.fetchrow on a connection of the shared pool.
MaxItems == 2

\* The ids a caller may name: those the sequence can hand out, and one more.
ItemIds == 1..(MaxItems + 1)

\* The descriptions a caller may give: none, or a text.
ItemDescriptions == {None, Some(1)}

\* The reserved JSON-RPC code the methods use for an item that does not exist.
InvalidParams == -32602

\* conn.fetchrow: the first row, or None.
fetchrow(db, query, args) ==
    Bind(Backend(db, query, args), LAMBDA r :
        [err |-> r.err, value |-> IF r.rows = <<>> THEN None ELSE Some(r.rows[1]),
         db |-> r.db, stmt |-> Stmt("fetchrow", query, args)])

\* jsonrpcserver's Success(result) and Error(code, message).
Success(body, sent, db) ==
    [kind |-> "Success", body |-> body, sent |-> sent, acquired |-> Len(sent), db |-> db]
Error(code, message, sent, db) ==
    [kind |-> "Error", body |-> [code |-> code, message |-> message], sent |-> sent,
     acquired |-> Len(sent), db |-> db]

\* f"Item with id {id} not found"
ItemNotFound(id) == "Item with id " \o ToString(id) \o " not found"

CreateItemQuery ==
    "\n"
        \o "            INSERT INTO items(name, description)\n"
        \o "            VALUES($1, $2)\n"
        \o "            RETURNING id, name, description\n"
        \o "            "
ReadItemQuery ==
    "\n"
        \o "            SELECT id, name, description\n"
        \o "            FROM items\n"
        \o "            WHERE id = $1\n"
        \o "            "
DeleteItemQuery ==
    "\n"
        \o "            DELETE FROM items\n"
        \o "            WHERE id = $1\n"
        \o "            RETURNING id\n"
        \o "            "

\* description: Optional[str] is bound as it is, None as NULL.
create_item(c, db) ==
    Bind(fetchrow(db, CreateItemQuery,
                  <<c.name, IF c.description = None THEN Null ELSE c.description[1]>>), LAMBDA r :
        IF r.err THEN Failed(<<r.stmt>>, db)
        ELSE Success(<< <<"id", Get(r.value[1], "id")>>, <<"name", Get(r.value[1], "name")>>,
                        <<"description", Get(r.value[1], "description")>> >>,
                     <<r.stmt>>, r.db))

read_item(c, db) ==
    Bind(fetchrow(db, ReadItemQuery, <<c.id>>), LAMBDA r :
        IF r.err THEN Failed(<<r.stmt>>, db)
        ELSE IF r.value = None THEN Error(InvalidParams, ItemNotFound(c.id), <<r.stmt>>, r.db)
        ELSE Success(<< <<"id", Get(r.value[1], "id")>>, <<"name", Get(r.value[1], "name")>>,
                        <<"description", Get(r.value[1], "description")>> >>,
                     <<r.stmt>>, r.db))

\* DELETE ... RETURNING id tells whether a row was removed.
delete_item_AlwaysSuccess(c, db) ==
    Bind(fetchrow(db, DeleteItemQuery, <<c.id>>), LAMBDA r :
        IF r.err THEN Failed(<<r.stmt>>, db)
        ELSE Success(<< <<"id", c.id>> >>, <<r.stmt>>, r.db))
delete_item(c, db) ==
    Bind(fetchrow(db, DeleteItemQuery, <<c.id>>), LAMBDA r :
        IF r.err THEN Failed(<<r.stmt>>, db)
        ELSE IF r.value = None THEN Error(InvalidParams, ItemNotFound(c.id), <<r.stmt>>, r.db)
        ELSE Success(<< <<"id", Get(r.value[1], "id")>> >>, <<r.stmt>>, r.db))

\* -------------------------------------------------------------- update_item
\* `if name is None and description is None`
UpdateItemRejects_Never(c) == ""
UpdateItemRejects(c) ==
    IF c.name = None /\ c.description = None
    THEN "At least one of 'name' or 'description' must be provided"
    ELSE ""

\* The SET clause: name first, then description, numbered from $1.
UpdateItemSetClauses_Swapped(c) ==
    (IF c.name # None THEN <<"description = $1">> ELSE <<>>)
        \o (IF c.description # None
            THEN <<"name = $" \o ToString(IF c.name # None THEN 2 ELSE 1)>> ELSE <<>>)
UpdateItemSetClauses(c) ==
    (IF c.name # None THEN <<"name = $1">> ELSE <<>>)
        \o (IF c.description # None
            THEN <<"description = $" \o ToString(IF c.name # None THEN 2 ELSE 1)>> ELSE <<>>)

\* The values of the SET clause, then the id as the last parameter.
UpdateItemValues(c) == c.name \o c.description \o <<c.id>>

UpdateItemQuery(c) ==
    "\n            UPDATE items"
        \o "\n            SET " \o Join(UpdateItemSetClauses(c), ", ")
        \o "\n            WHERE id = $" \o ToString(Len(UpdateItemSetClauses(c)) + 1)
        \o "\n            RETURNING id, name, description"
        \o "\n            "

\* As update_item, a missing row answered with Success.
update_item_SuccessOnMissing(c, db) ==
    IF UpdateItemRejects(c) # "" THEN Error(InvalidParams, UpdateItemRejects(c), <<>>, db)
    ELSE Bind(fetchrow(db, UpdateItemQuery(c), UpdateItemValues(c)), LAMBDA r :
        IF r.err THEN Failed(<<r.stmt>>, db)
        ELSE IF r.value = None THEN Success(<< <<"id", c.id>> >>, <<r.stmt>>, r.db)
        ELSE Success(<< <<"id", Get(r.value[1], "id")>>, <<"name", Get(r.value[1], "name")>>,
                        <<"description", Get(r.value[1], "description")>> >>,
                     <<r.stmt>>, r.db))
update_item(c, db) ==
    IF UpdateItemRejects(c) # "" THEN Error(InvalidParams, UpdateItemRejects(c), <<>>, db)
    ELSE Bind(fetchrow(db, UpdateItemQuery(c), UpdateItemValues(c)), LAMBDA r :
        IF r.err THEN Failed(<<r.stmt>>, db)
        ELSE IF r.value = None THEN Error(InvalidParams, ItemNotFound(c.id), <<r.stmt>>, r.db)
        ELSE Success(<< <<"id", Get(r.value[1], "id")>>, <<"name", Get(r.value[1], "name")>>,
                        <<"description", Get(r.value[1], "description")>> >>,
                     <<r.stmt>>, r.db))

\* -------------------------------------------------------------- query_items
\* conn.fetchval: the first column of the first row, or None.
fetchval(db, query, args) ==
    Bind(Backend(db, query, args), LAMBDA r :
        [err |-> r.err, value |-> IF r.rows = <<>> THEN None ELSE Some(r.rows[1][1][2]),
         db |-> r.db, stmt |-> Stmt("fetchval", query, args)])

\* conn.fetch: every row.
fetch(db, query, args) ==
    Bind(Backend(db, query, args), LAMBDA r :
        [err |-> r.err, value |-> r.rows, db |-> r.db, stmt |-> Stmt("fetch", query, args)])

\* `if name_filter`: the WHERE clause and its one value.
QueryFiltered(c) == TruthyStr(c.name_filter)
QueryWhere(c) == IF QueryFiltered(c) THEN "WHERE name ILIKE $1" ELSE ""
QueryFilterValues(c) == IF QueryFiltered(c) THEN <<"%" \o c.name_filter[1] \o "%">> ELSE <<>>

CountSql(c) == "SELECT COUNT(*) FROM items " \o QueryWhere(c)

\* As QuerySql, the placeholders of LIMIT and OFFSET exchanged.
QuerySql_Swapped(c) ==
    LET idx == Len(QueryFilterValues(c)) + 1
    IN  "SELECT id, name, description FROM items " \o QueryWhere(c) \o " " \o "ORDER BY id "
            \o "LIMIT $" \o ToString(idx + 1) \o " OFFSET $" \o ToString(idx)
QuerySql(c) ==
    LET idx == Len(QueryFilterValues(c)) + 1
    IN  "SELECT id, name, description FROM items " \o QueryWhere(c) \o " " \o "ORDER BY id "
            \o "LIMIT $" \o ToString(idx) \o " OFFSET $" \o ToString(idx + 1)

\* The count, then the page, on one connection.
query_items(c, db) ==
    Bind(fetchval(db, CountSql(c), QueryFilterValues(c)), LAMBDA r1 :
        IF r1.err THEN [Failed(<<r1.stmt>>, db) EXCEPT !.acquired = 1]
        ELSE Bind(fetch(r1.db, QuerySql(c), QueryFilterValues(c) \o <<c.limit, c.offset>>), LAMBDA r2 :
            IF r2.err THEN [Failed(<<r1.stmt, r2.stmt>>, r1.db) EXCEPT !.acquired = 1]
            ELSE [Success([items |-> [i \in 1..Len(r2.value) |->
                                         << <<"id", Get(r2.value[i], "id")>>,
                                            <<"name", Get(r2.value[i], "name")>>,
                                            <<"description", Get(r2.value[i], "description")>> >>],
                           total |-> r1.value[1], limit |-> c.limit, offset |-> c.offset],
                          <<r1.stmt, r2.stmt>>, r2.db) EXCEPT !.acquired = 1]))

\* ------------------------------------------------------------------ state
VARIABLES
    db,        \* the database: [table, nextId]
    call,      \* the tool call being served (Idle when none)
    result,    \* its outcome: [kind, body]
    sent,      \* the statements it sent to the driver, in order
    acquired,  \* the pooled connections it acquired
    procs,     \* the concurrent invocations, each at its own await
    pool,      \* the connections of the pool that are free
    handle,    \* db/connection.py's module-level _pool (None or a pool)
    pools,     \* every pool create_pool has built, "open" or "closed"
    tasks,     \* the coroutines of db/connection.py, each at its own await
    lifespan   \* server_lifespan's generator: its position and its locals

vars == <<db, call, result, sent, acquired, procs, pool, handle, pools, tasks, lifespan>>

\* The pool lifecycle, left alone by the tool handlers.
lifecycle == <<handle, pools, tasks, lifespan>>

Idle == [tool |-> "none"]
NoResult == [kind |-> "none", body |-> ""]

\* The coroutines that call db/connection.py, and the pools one run may build.
MaxTasks == 2
MaxPools == 3
Tasks == 1..MaxTasks
IdleTask == [pc |-> "idle", pool |-> 0]

\* server_lifespan before the server is started: nothing bound, nothing raised.
Stopped == [pc |-> "stopped", env |-> {}, pool |-> <<>>, exc |-> "", yielded |-> FALSE]

\* No pool has been built and no coroutine of the lifecycle is running.
NoLifecycle ==
    /\ handle = <<>>
    /\ pools = <<>>
    /\ tasks = [t \in Tasks |-> IdleTask]
    /\ lifespan = Stopped

\* ----------------------------------------------------------------- inputs
Schemas == {"public", "sales"}
TableNames == {"items"}
Vals == {0, 1}
DataColumns == {"name", "description"}

\* Dicts over DataColumns: empty, one key, two keys in either iteration order.
DataMaps ==
    {<<>>,
     <<<<"name", 1>>>>,
     <<<<"name", 0>>, <<"description", 1>>>>,
     <<<<"description", 1>>, <<"name", 0>>>>}

\* A predicate that references $1..$10.
WideWhere == "id = $1 OR id = $2 OR id = $3 OR id = $4 OR id = $5 OR id = $6 OR id = $7 OR id = $8 OR id = $9 OR id = $10"
WideParams == [i \in 1..10 |-> IF i = 10 THEN 1 ELSE 0]

\* (where_clause, where_params) as update_records and delete_records take them.
WherePairs ==
    {<<w, p>> : w \in {None, Some("")}, p \in {<<>>, <<1>>}}
    \cup {<<Some("id = $1"), <<v>>>> : v \in Vals}
    \cup {<<Some("id = $1 AND name = $2"), <<1, v>>>> : v \in Vals}
    \cup {<<Some("name = $1 OR description = $1"), <<1>>>>}
    \cup {<<Some(WideWhere), WideParams>>, <<Some(" "), <<>>>>}

\* (where_clause, where_params) as select_records takes them: both optional.
SelectWherePairs ==
    {<<None, None>>, <<None, Some(<<1>>)>>, <<Some(""), None>>,
     <<Some("id = $1"), None>>, <<Some("id = $1"), Some(<<0>>)>>, <<Some("id = $1"), Some(<<1>>)>>,
     <<Some("id = $1 AND name = $2"), Some(<<1, 0>>)>>,
     <<Some("id = $1 AND name = $2"), Some(<<1, 1>>)>>}

Limits == {None, Some(0), Some(1)}
Offsets == {None, Some(1)}
\* (schema, columns, order_by) as select_records takes them.
SelectShapes ==
    {<<"public", None, None>>,
     <<"public", Some(<<"name", "id">>), Some("id DESC")>>,
     <<"sales", None, Some("name")>>}

Queries == {"", "  \n ", "DELETE FROM items", "SELECT * FROM items", "  select id FROM items WHERE id = $1",
            "UPDATE items SET name = $1", "DELETE FROM items WHERE id = $1", "SELECTED"}
QueryTypes == {"SELECT", "select", "DELETE"}
ParamLists == {None, Some(<<>>), Some(<<1>>)}

\* The tables the catalog tools are asked about: one that exists, one that does not.
CatalogTableNames == {"items", "ghost"}

\* ---------------------------------------------------------------- actions
\* The concurrent invocations and the pool they draw connections from.
MaxInvocations == 2
MaxConns == 1
Invocations == 1..MaxInvocations
Conns == 1..MaxConns
NoOutcome == [kind |-> "none", body |-> "", cause |-> "none"]
IdleProc == [pc |-> "idle", c |-> Idle, stage |-> 0, conn |-> 0, replies |-> <<>>, out |-> NoOutcome]

Init ==
    /\ db = [table |-> <<>>, nextId |-> 1]
    /\ call = Idle
    /\ result = NoResult
    /\ sent = <<>>
    /\ acquired = 0
    /\ procs = [p \in Invocations |-> IdleProc]
    /\ pool = Conns
    /\ NoLifecycle

\* The handler runs to its end: its outcome and its effect on the database.
Serve(c, out) ==
    /\ out.db.nextId <= MaxRows + 1
    /\ call' = c
    /\ result' = [kind |-> out.kind, body |-> out.body]
    /\ sent' = out.sent
    /\ acquired' = out.acquired
    /\ db' = out.db
    /\ UNCHANGED <<procs, pool>>
    /\ UNCHANGED lifecycle

InsertRecord ==
    /\ call = Idle
    /\ \E table_name \in TableNames, data \in DataMaps, schema \in Schemas, return_record \in BOOLEAN :
        LET c == [tool |-> "insert_record", table_name |-> table_name, data |-> data,
                  schema |-> schema, return_record |-> return_record]
        IN  \E out \in {insert_record(c, db)} : Serve(c, out)

SelectRecords ==
    /\ call = Idle
    /\ \E table_name \in TableNames, shape \in SelectShapes,
          wp \in SelectWherePairs, limit \in Limits, offset \in Offsets :
        LET c == [tool |-> "select_records", table_name |-> table_name, schema |-> shape[1],
                  columns |-> shape[2], where_clause |-> wp[1], where_params |-> wp[2],
                  order_by |-> shape[3], limit |-> limit, offset |-> offset]
        IN  \E out \in {select_records(c, db)} : Serve(c, out)

UpdateRecords ==
    /\ call = Idle
    /\ \E table_name \in TableNames, data \in DataMaps, wp \in WherePairs,
       schema \in Schemas, return_records \in BOOLEAN :
        LET c == [tool |-> "update_records", table_name |-> table_name, data |-> data,
                  where_clause |-> wp[1], where_params |-> wp[2],
                  schema |-> schema, return_records |-> return_records]
        IN  \E out \in {update_records(c, db)} : Serve(c, out)

DeleteRecords ==
    /\ call = Idle
    /\ \E table_name \in TableNames, wp \in WherePairs, schema \in Schemas, return_records \in BOOLEAN :
        LET c == [tool |-> "delete_records", table_name |-> table_name,
                  where_clause |-> wp[1], where_params |-> wp[2],
                  schema |-> schema, return_records |-> return_records]
        IN  \E out \in {delete_records(c, db)} : Serve(c, out)

ExecuteCustomQuery ==
    /\ call = Idle
    /\ \E query \in Queries, params \in ParamLists, query_type \in QueryTypes :
        LET c == [tool |-> "execute_custom_query", query |-> query, params |-> params,
                  query_type |-> query_type]
        IN  \E out \in {execute_custom_query(c, db)} : Serve(c, out)

DescribeTable ==
    /\ call = Idle
    /\ \E table_name \in CatalogTableNames, schema \in Schemas :
        LET c == [tool |-> "describe_table", table_name |-> table_name, schema |-> schema]
        IN  \E out \in {describe_table(c, db)} : Serve(c, out)

GetTableStatistics ==
    /\ call = Idle
    /\ \E table_name \in CatalogTableNames, schema \in Schemas :
        LET c == [tool |-> "get_table_statistics", table_name |-> table_name, schema |-> schema]
        IN  \E out \in {get_table_statistics(c, db)} : Serve(c, out)

\* The response (or the error) goes back to the caller; the call's objects are dropped.
Respond ==
    /\ call # Idle
    /\ call' = Idle
    /\ result' = NoResult
    /\ sent' = <<>>
    /\ acquired' = 0
    /\ UNCHANGED <<db, procs, pool>>
    /\ UNCHANGED lifecycle

Next ==
    \/ InsertRecord
    \/ SelectRecords
    \/ UpdateRecords
    \/ DeleteRecords
    \/ ExecuteCustomQuery
    \/ DescribeTable
    \/ GetTableStatistics
    \/ Respond

Spec == Init /\ [][Next]_vars

\* ------------------------------------------------- concurrent invocations
\* The tools are coroutines on one event loop: an invocation runs until it
\* awaits (a connection, a statement, the release of the connection) and any
\* other invocation may run meanwhile.  Each DatabaseContext method is
\*     async with self.pool.acquire() as conn: await conn.<method>(query, *args)
\* so every statement of a call has an acquisition and a release of its own.

\* get_server_info's two statements.
VersionQuery == "SELECT version() as version"
DatabaseSizeQuery == "SELECT pg_size_pretty(pg_database_size($1)) as size"

\* The statements a call sends when nothing fails, in order.
Statements(c) ==
    IF c.tool = "insert_record"
    THEN <<Stmt(IF c.return_record THEN "execute_single" ELSE "execute_command",
                InsertQuery(c), InsertValues(c.data))>>
    ELSE IF c.tool = "select_records"
    THEN <<Stmt("execute_query", SelectQuery(c), SelectParams(c)),
           Stmt("execute_single", CountQuery(c), CountParams(c))>>
    ELSE IF c.tool = "describe_table"
    THEN <<Stmt("execute_query", ColumnsQuery, <<c.schema, c.table_name>>),
           Stmt("execute_query", ConstraintsQuery, <<c.schema, c.table_name>>),
           Stmt("execute_query", IndexesQuery, <<c.schema, c.table_name>>)>>
    ELSE IF c.tool = "get_table_statistics"
    THEN <<Stmt("execute_single", TableInfoQuery, <<c.schema, c.table_name>>),
           Stmt("execute_single", RowCountQuery(c), <<>>),
           Stmt("execute_single", SizeQuery, <<c.schema \o "." \o c.table_name>>)>>
    ELSE IF c.tool = "get_server_info"
    THEN <<Stmt("execute_single", VersionQuery, <<>>),
           Stmt("execute_single", DatabaseSizeQuery, <<Database>>)>>
    ELSE <<Stmt(IF c.return_records THEN "execute_query" ELSE "execute_command",
                DeleteQuery(c), c.where_params)>>

\* The message of the ValueError the call's own checks raise, "" when they pass.
Rejection(c) ==
    IF c.tool = "insert_record"
    THEN (IF InsertRejects(c) THEN "Data dictionary cannot be empty" ELSE "")
    ELSE IF c.tool = "delete_records" THEN DeleteRejects(c)
    ELSE ""

\* One DatabaseContext method on the connection held.
Run(stmt, d) ==
    IF stmt.via = "execute_query" THEN execute_query(d, stmt.text, stmt.args)
    ELSE IF stmt.via = "execute_single" THEN execute_single(d, stmt.text, stmt.args)
    ELSE execute_command(d, stmt.text, stmt.args)

\* The response the call builds from what its statements returned.
Response(c, replies) ==
    IF c.tool = "select_records"
    THEN [records |-> [i \in 1..Len(replies[1]) |-> serialize_value(replies[1][i])],
          total_count |-> IF replies[2] # None THEN Get(replies[2][1], "total") ELSE 0,
          returned_count |-> Len(replies[1]),
          limit |-> c.limit,
          offset |-> IF c.offset # None /\ c.offset[1] # 0 THEN c.offset[1] ELSE 0]
    ELSE IF c.tool = "describe_table"
    THEN [table_name |-> c.table_name, schema |-> c.schema, columns |-> replies[1],
          constraints |-> replies[2], indexes |-> replies[3]]
    ELSE IF c.tool = "get_table_statistics"
    THEN [table_info |-> replies[1][1],
          row_count |-> IF replies[2] # None THEN Get(replies[2][1], "row_count") ELSE 0,
          size_info |-> IF replies[3] # None THEN replies[3][1] ELSE <<>>]
    ELSE IF c.tool = "get_server_info"
    THEN [server_name |-> "PostgreSQL MCP Server", database |-> Database,
          version |-> IF replies[1] # None THEN Get(replies[1][1], "version") ELSE "Unknown",
          database_size |-> IF replies[2] # None THEN Get(replies[2][1], "size") ELSE "Unknown",
          status |-> "connected"]
    ELSE IF c.tool = "insert_record"
    THEN (IF ~c.return_record THEN [success |-> TRUE, rows_affected |-> LastInt(replies[1])]
          ELSE IF replies[1] # None
          THEN [success |-> TRUE, record |-> serialize_value(replies[1][1])]
          ELSE [success |-> FALSE, error |-> "Failed to insert record"])
    ELSE (IF c.return_records
          THEN [success |-> TRUE,
                records |-> [i \in 1..Len(replies[1]) |-> serialize_value(replies[1][i])],
                rows_affected |-> Len(replies[1])]
          ELSE [success |-> TRUE, rows_affected |-> LastInt(replies[1])])

\* How an invocation ends.  cause: what raised ("check", "acquire",
\* "statement", "cancel"), "none" for a response.  An exception of the driver
\* leaves the method and the tool as it was raised: neither has an except clause.
Outcome(kind, body, cause) == [kind |-> kind, body |-> body, cause |-> cause]
DriverRaised(cause) == Outcome(Failed(<<>>, db).kind, "", cause)
Cancelled == Outcome("CancelledError", "", "cancel")

\* How a call ends once its last statement has returned: describe_table and
\* get_table_statistics check for the table only then.
Completion(c, replies) ==
    IF \/ c.tool = "describe_table" /\ DescribeNotFound(replies[1])
       \/ c.tool = "get_table_statistics" /\ replies[1] = None
    THEN Outcome("ValueError", NotFound(c), "check")
    ELSE Outcome("ok", Response(c, replies), "none")

\* get_server_info's `except Exception`: the error becomes the response.
Caught(c, out) ==
    IF c.tool = "get_server_info" /\ out.kind # "CancelledError"
    THEN Outcome("ok", [server_name |-> "PostgreSQL MCP Server", status |-> "error"], "none")
    ELSE out

\* As Resume, for a handler that kept the connection of its last statement.
Resume_Holding(proc) == [proc EXCEPT !.pc = "acquire", !.stage = @ + 1]

\* The call goes on to its next statement, holding no connection.
Resume(proc) == [proc EXCEPT !.pc = "acquire", !.conn = 0, !.stage = @ + 1]

\* As Released, for a method that releases after the statement without a
\* finally or a context manager.
Released_OnSuccessOnly(free, conn, out) == IF out.kind = "none" THEN free \cup {conn} ELSE free

\* The pool after `async with` is left, however it is left.
Released(free, conn, out) == free \cup {conn}

\* The calls the concurrent invocations make.
PoolCalls ==
    {[tool |-> "select_records", table_name |-> "items", schema |-> sc, columns |-> None,
      where_clause |-> None, where_params |-> None, order_by |-> None,
      limit |-> None, offset |-> None] : sc \in Schemas}
    \cup {[tool |-> "delete_records", table_name |-> "items", where_clause |-> Some("id = $1"),
           where_params |-> <<1>>, schema |-> "public", return_records |-> FALSE]}
    \cup {[tool |-> "insert_record", table_name |-> "items", data |-> <<>>,
           schema |-> "public", return_record |-> FALSE]}

\* A database with one row, as one insert_record leaves it.
Seeded == [table |-> <<[id |-> 1, name |-> 1, description |-> Null]>>, nextId |-> 2]

PoolInit ==
    /\ db \in {[table |-> <<>>, nextId |-> 1], Seeded}
    /\ call = Idle
    /\ result = NoResult
    /\ sent = <<>>
    /\ acquired = 0
    /\ procs = [p \in Invocations |-> IdleProc]
    /\ pool = Conns
    /\ NoLifecycle

\* The transport calls a tool: its checks run up to the first await.
\* Invocations are numbered in the order they arrive.
Invoke(p) ==
    /\ procs[p].pc = "idle"
    /\ IF p = 1 THEN TRUE ELSE procs[p - 1].pc # "idle"
    /\ \E c \in PoolCalls :
          procs' = [procs EXCEPT ![p] =
                      IF Rejection(c) # ""
                      THEN [IdleProc EXCEPT !.pc = "done", !.c = c,
                                            !.out = Outcome("ValueError", Rejection(c), "check")]
                      ELSE [IdleProc EXCEPT !.pc = "acquire", !.c = c, !.stage = 1]]
    /\ UNCHANGED <<db, call, result, sent, acquired, pool>>
    /\ UNCHANGED lifecycle

\* pool.acquire() returns a free connection; it waits while there is none.
Acquire(p) ==
    /\ procs[p].pc = "acquire"
    /\ pool # {}
    /\ \E conn \in {CHOOSE x \in pool : \A y \in pool : x <= y} :
          /\ procs' = [procs EXCEPT ![p].pc = "run", ![p].conn = conn]
          /\ pool' = pool \ {conn}
    /\ UNCHANGED <<db, call, result, sent, acquired>>
    /\ UNCHANGED lifecycle

\* pool.acquire() raises: the pool cannot hand out a connection.
AcquireFails(p) ==
    /\ procs[p].pc = "acquire"
    /\ procs' = [procs EXCEPT ![p].pc = "done",
                              ![p].out = Caught(procs[p].c, DriverRaised("acquire"))]
    /\ UNCHANGED <<db, call, result, sent, acquired, pool>>
    /\ UNCHANGED lifecycle

\* The statement of the stage runs on the connection held, in its own transaction.
Execute(p) ==
    /\ procs[p].pc = "run"
    /\ \E r \in {Run(Statements(procs[p].c)[procs[p].stage], db)} :
          /\ r.db.nextId <= MaxRows + 1
          /\ db' = r.db
          /\ procs' = [procs EXCEPT ![p] =
                         IF r.err THEN [@ EXCEPT !.pc = "exit", !.out = DriverRaised("statement")]
                         ELSE [@ EXCEPT !.pc = "exit", !.replies = Append(@, r.value)]]
    /\ UNCHANGED <<call, result, sent, acquired, pool>>
    /\ UNCHANGED lifecycle

\* `async with` is left: the connection goes back, then the call goes on to its
\* next statement, returns its response, or lets the exception out.
Release(p) ==
    /\ procs[p].pc = "exit"
    /\ pool' = Released(pool, procs[p].conn, procs[p].out)
    /\ procs' = [procs EXCEPT ![p] =
                   IF @.out.kind # "none"
                   THEN [@ EXCEPT !.pc = "done", !.conn = 0,
                                  !.out = Caught(procs[p].c, procs[p].out)]
                   ELSE IF @.stage < Len(Statements(@.c))
                   THEN Resume(@)
                   ELSE [@ EXCEPT !.pc = "done", !.conn = 0,
                                  !.out = Completion(procs[p].c, procs[p].replies)]]
    /\ UNCHANGED <<db, call, result, sent, acquired>>
    /\ UNCHANGED lifecycle

\* The transport cancels the call at the await it is suspended in:
\* CancelledError is raised there and `async with`, when entered, is left.
Cancel(p) ==
    /\ procs[p].pc \in {"acquire", "run", "exit"}
    /\ procs[p].out.kind = "none"
    /\ procs' = [procs EXCEPT ![p] =
                   IF @.pc = "acquire" THEN [@ EXCEPT !.pc = "done", !.out = Cancelled]
                   ELSE [@ EXCEPT !.pc = "exit", !.out = Cancelled]]
    /\ UNCHANGED <<db, call, result, sent, acquired, pool>>
    /\ UNCHANGED lifecycle

PoolNext ==
    \E p \in Invocations :
        \/ Invoke(p)
        \/ Acquire(p)
        \/ AcquireFails(p)
        \/ Execute(p)
        \/ Release(p)
        \/ Cancel(p)

PoolSpec == PoolInit /\ [][PoolNext]_vars

\* The handlers that send several statements, each through a method of its own.
SeveralStatementCalls ==
    {[tool |-> "select_records", table_name |-> "items", schema |-> "public", columns |-> None,
      where_clause |-> None, where_params |-> None, order_by |-> None,
      limit |-> None, offset |-> None],
     [tool |-> "describe_table", table_name |-> "items", schema |-> "public"],
     [tool |-> "get_table_statistics", table_name |-> "items", schema |-> "public"],
     [tool |-> "get_server_info"]}

\* The transport calls one of them: none has a check before its first await.
InvokeSeveral(p) ==
    /\ procs[p].pc = "idle"
    /\ IF p = 1 THEN TRUE ELSE procs[p - 1].pc # "idle"
    /\ \E c \in SeveralStatementCalls :
          procs' = [procs EXCEPT ![p] = [IdleProc EXCEPT !.pc = "acquire", !.c = c, !.stage = 1]]
    /\ UNCHANGED <<db, call, result, sent, acquired, pool>>
    /\ UNCHANGED lifecycle

\* pool.acquire() is called without a timeout: a call that finds no free
\* connection waits for one.
SeveralNext ==
    \E p \in Invocations :
        \/ InvokeSeveral(p)
        \/ Acquire(p)
        \/ Execute(p)
        \/ Release(p)
        \/ Cancel(p)

\* The event loop runs every coroutine that can go on: a waiter gets a
\* connection once one stays free, a statement returns (command_timeout), and
\* `async with` is left.  The condition on Execute is weak fairness written
\* out: Execute(p) is enabled exactly while the invocation is at "run", and
\* an Execute(p) step is one that takes it from there to "exit".
Scheduling ==
    \A p \in Invocations :
        /\ WF_vars(Acquire(p))
        /\ []<>(procs[p].pc # "run")
              \/ []<><<procs[p].pc = "run" /\ procs'[p].pc = "exit" /\ Execute(p)>>_vars
        /\ WF_vars(Release(p))

FairPoolSpec == PoolInit /\ [][SeveralNext]_vars /\ Scheduling

\* ------------------------------------------- normalisation of driver values
\* serialize_value over every kind of value the driver hands back.  A value is
\* [tag, n, s, keys, items]: tag is its Python type; n holds the integer fields
\* of a number or of a datetime / date / time; s the text of a str; keys and
\* items the keys and values of a dict, items alone the elements of a list or
\* tuple.
MaxLen == 2

Value(tag, n, s, keys, items) == [tag |-> tag, n |-> n, s |-> s, keys |-> keys, items |-> items]
PyInt(i) == Value("int", <<i>>, "", <<>>, <<>>)
PyStr(s) == Value("str", <<>>, s, <<>>, <<>>)
PyNone == Value("NoneType", <<>>, "", <<>>, <<>>)
PyDatetime(y, mo, d, h, mi, sec) == Value("datetime", <<y, mo, d, h, mi, sec>>, "", <<>>, <<>>)
PyDate(y, mo, d) == Value("date", <<y, mo, d>>, "", <<>>, <<>>)
PyTime(h, mi, sec) == Value("time", <<h, mi, sec>>, "", <<>>, <<>>)
PyList(items) == Value("list", <<>>, "", <<>>, items)
PyTuple(items) == Value("tuple", <<>>, "", <<>>, items)
PyDict(keys, items) == Value("dict", <<>>, "", keys, items)

\* '%0*d' % (width, i)
RECURSIVE ZeroFill(_, _)
ZeroFill(t, width) == IF Len(t) >= width THEN t ELSE ZeroFill("0" \o t, width)
Pad(i, width) == ZeroFill(ToString(i), width)

\* datetime.isoformat() / date.isoformat(), no microseconds and no tzinfo.
IsoDate(n) == Pad(n[1], 4) \o "-" \o Pad(n[2], 2) \o "-" \o Pad(n[3], 2)
IsoTime(n) == Pad(n[1], 2) \o ":" \o Pad(n[2], 2) \o ":" \o Pad(n[3], 2)
isoformat(value) ==
    IF value.tag = "datetime" THEN IsoDate(SubSeq(value.n, 1, 3)) \o "T" \o IsoTime(SubSeq(value.n, 4, 6))
    ELSE IsoDate(value.n)

\* isinstance(value, (datetime, date)): datetime is a subclass of date;
\* datetime.time is neither.
IsDateOrDatetime(value) == value.tag \in {"datetime", "date"}

RECURSIVE SerializeValue(_)
SerializeValue(value) ==
    IF IsDateOrDatetime(value) THEN PyStr(isoformat(value))
    ELSE IF value.tag \in {"list", "tuple"}
    THEN PyList([i \in 1..Len(value.items) |-> SerializeValue(value.items[i])])
    ELSE IF value.tag = "dict"
    THEN PyDict(value.keys, [i \in 1..Len(value.items) |-> SerializeValue(value.items[i])])
    ELSE value

\* What a column of a fetched row can hold: a number, text, NULL, a timestamp,
\* a date, a time of day; an array of those; a record of such columns.
Scalars == {PyInt(1), PyStr("a"), PyNone, PyDatetime(2024, 1, 2, 3, 4, 5), PyDate(2024, 1, 2),
            PyTime(3, 4, 5)}
SeqsOver(S) == UNION {[1..n -> S] : n \in 0..MaxLen}
Arrays == {PyList(items) : items \in SeqsOver(Scalars)} \cup {PyTuple(<<x>>) : x \in Scalars}
FieldNames == <<"created_at", "opens_at", "tags", "meta">>
FieldValues == Scalars \cup {PyList(<<x>>) : x \in Scalars}
Records == {PyDict(SubSeq(FieldNames, 1, Len(items)), items) : items \in SeqsOver(FieldValues)}
DriverValues == Scalars \cup Arrays \cup Records \cup {PyList(<<r>>) : r \in {rec \in Records : Len(rec.items) = 1}}

\* A tool normalises one value on its way into the response.
Normalize ==
    /\ call = Idle
    /\ \E value \in DriverValues :
        /\ call' = [tool |-> "serialize_value", value |-> value]
        /\ result' = [kind |-> "ok", body |-> SerializeValue(value)]
        /\ sent' = <<>>
        /\ acquired' = 0
        /\ UNCHANGED <<db, procs, pool>>
        /\ UNCHANGED lifecycle

NormNext ==
    \/ Normalize
    \/ Respond

NormSpec == Init /\ [][NormNext]_vars

\* ------------------------------------- the JSON-RPC item methods, served
\* The method runs to its end: its outcome and its effect on the table.
Dispatch(c, out) ==
    /\ out.db.nextId <= MaxItems + 1
    /\ call' = c
    /\ result' = [kind |-> out.kind, body |-> out.body]
    /\ sent' = out.sent
    /\ acquired' = out.acquired
    /\ db' = out.db
    /\ UNCHANGED <<procs, pool>>
    /\ UNCHANGED lifecycle

CreateItem ==
    /\ call = Idle
    /\ \E name \in Vals, description \in ItemDescriptions :
        LET c == [tool |-> "create_item", name |-> name, description |-> description]
        IN  \E out \in {create_item(c, db)} : Dispatch(c, out)

ReadItem ==
    /\ call = Idle
    /\ \E id \in ItemIds :
        LET c == [tool |-> "read_item", id |-> id]
        IN  \E out \in {read_item(c, db)} : Dispatch(c, out)

DeleteItem ==
    /\ call = Idle
    /\ \E id \in ItemIds :
        LET c == [tool |-> "delete_item", id |-> id]
        IN  \E out \in {delete_item(c, db)} : Dispatch(c, out)

UpdateItem ==
    /\ call = Idle
    /\ \E id \in ItemIds, name \in {None} \cup {Some(v) : v \in Vals},
          description \in ItemDescriptions :
        LET c == [tool |-> "update_item", id |-> id, name |-> name, description |-> description]
        IN  \E out \in {update_item(c, db)} : Dispatch(c, out)

\* What query_items is asked: no filter, an empty one, a substring; a page
\* size and a start.
QueryFilters == {None, Some(""), Some("1")}
QueryLimits == {0, 1, 2}
QueryOffsets == {0, 1}

QueryItems ==
    /\ call = Idle
    /\ \E name_filter \in QueryFilters, limit \in QueryLimits, offset \in QueryOffsets :
        LET c == [tool |-> "query_items", name_filter |-> name_filter, limit |-> limit,
                  offset |-> offset]
        IN  \E out \in {query_items(c, db)} : Dispatch(c, out)

RpcNext ==
    \/ CreateItem
    \/ ReadItem
    \/ UpdateItem
    \/ DeleteItem
    \/ QueryItems
    \/ Respond

RpcSpec == Init /\ [][RpcNext]_vars

\* ================================================================= claims
\* What the statements of a call look like from outside the server.

\* s after the first occurrence of p ("" when p does not occur).
After(s, p) == IF Contains(s, p) THEN From(s, Find(s, p) - 1 + Len(p)) ELSE ""

\* s.split(sep) for a non-empty sep.
RECURSIVE Split(_, _)
Split(s, sep) ==
    LET i == Find(s, sep)
    IN  IF i = 0 THEN <<s>>
        ELSE <<SubSeq(s, 1, i - 1)>> \o Split(From(s, i - 1 + Len(sep)), sep)

\* The text of s between the first `open` and the next `close` after it.
Between(s, open, close) ==
    LET rest == From(s, Find(s, open) - 1 + Len(open))
        j == Find(rest, close)
    IN  IF j = 0 THEN rest ELSE SubSeq(rest, 1, j - 1)

\* The text of s before the first occurrence of any of stops (all of s when none occurs).
Before(s, stops) ==
    LET hits == {Find(s, p) : p \in stops} \ {0}
    IN  IF hits = {} THEN s
        ELSE SubSeq(s, 1, (CHOOSE i \in hits : \A j \in hits : i <= j) - 1)

\* The placeholder tokens of a statement text, in order: each "$" followed by
\* its full run of digits, as the number it denotes (the backend's tokenizer).
Placeholders(s) ==
    LET positions == [i \in 1..Len(s) |-> i]
        digit(i) == i <= Len(s) /\ IsDigit(SubSeq(s, i, i))
        dollars == SelectSeq(positions, LAMBDA i : SubSeq(s, i, i) = "$" /\ digit(i + 1))
        runEnd(i) == CHOOSE e \in i..Len(s) :
                         /\ \A j \in (i + 1)..e : digit(j)
                         /\ ~digit(e + 1)
    IN  [k \in 1..Len(dollars) |-> ParseInt(SubSeq(s, dollars[k] + 1, runEnd(dollars[k] + 1)))]

\* The WHERE predicate of the UPDATE text update_records sent.
SentUpdateWhere(text) == Before(After(text, "\n        WHERE "), {"\n    "})

\* where_clause with every whole placeholder token $j, 1 <= j <= k, renamed to
\* $(n+j), and every other character kept.
RECURSIVE TokenRenumber(_, _, _)
TokenRenumber(s, n, k) ==
    LET i == Find(s, "$")
        rest == From(s, i)
        run == {e \in 0..Len(rest) : \A j \in 1..e : IsDigit(SubSeq(rest, j, j))}
        e == CHOOSE x \in run : \A y \in run : x >= y
        num == ParseInt(SubSeq(rest, 1, e))
    IN  IF i = 0 THEN s
        ELSE SubSeq(s, 1, i)
             \o (IF e > 0 /\ num \in 1..k THEN ToString(n + num) ELSE SubSeq(rest, 1, e))
             \o TokenRenumber(From(rest, e), n, k)

UpdateBuilt ==
    call.tool = "update_records" /\ result.kind # "ValueError" /\ Len(sent) = 1

\* C1: update_records, data of n columns, where_clause referencing exactly
\* $1..$k with k = len(where_params): the WHERE text sent references $(n+j)
\* wherever the clause referenced $j, distinct placeholders staying distinct,
\* and the bound values are the n SET values in data order followed by the k
\* where_params.  Stated for k <= 9, where every placeholder is one digit.
C1_UpdateRenumbered ==
    (/\ UpdateBuilt
     /\ Len(call.where_params) <= 9
     /\ Range(Placeholders(call.where_clause[1])) = 1..Len(call.where_params))
    => LET n == Len(call.data)
           orig == Placeholders(call.where_clause[1])
       IN  /\ Placeholders(SentUpdateWhere(sent[1].text)) = [i \in 1..Len(orig) |-> n + orig[i]]
           /\ sent[1].args = [i \in 1..n |-> call.data[i][2]] \o call.where_params

\* C2: update_records renumbers whole placeholder tokens only: with a
\* multi-digit placeholder in where_clause, each token, matched by its full digit
\* run, is replaced once and no other character of the clause changes.
C2_WholeTokensOnly ==
    (UpdateBuilt /\ \E i \in 1..Len(Placeholders(call.where_clause[1])) :
                        Placeholders(call.where_clause[1])[i] >= 10)
    => SentUpdateWhere(sent[1].text)
         = TokenRenumber(call.where_clause[1], Len(call.data), Len(call.where_params))

\* C3: update_records and delete_records raise the validation error, acquire
\* no connection and send no statement whenever where_clause is None or "",
\* whatever the other parameters (data non-empty for update_records).
C3_PredicateRequired ==
    (/\ call.tool \in {"update_records", "delete_records"}
     /\ call.tool = "update_records" => call.data # <<>>
     /\ call.where_clause \in {None, Some("")})
    => /\ result.kind = "ValueError"
       /\ result.body = (IF call.tool = "update_records"
                         THEN "WHERE clause is required for UPDATE operations for safety"
                         ELSE "WHERE clause is required for DELETE operations for safety")
       /\ acquired = 0
       /\ sent = <<>>

C3_Witness ==
    /\ call.tool = "update_records"
    /\ call.data # <<>> /\ call.where_clause = Some("") /\ call.where_params # <<>>
    /\ call.schema = "sales" /\ call.return_records
    /\ result.kind = "ValueError"
    /\ db.table # <<>>

\* The first token of a statement, and whether the statement has a WHERE clause.
IsMutation(text) == Lex(text) # <<>> /\ Lex(text)[1] \in {"UPDATE", "DELETE"}
Unscoped(text) == ~Has(Lex(text), "WHERE")

\* C4 (as claimed): over every tool and every sequence of calls, no UPDATE or
\* DELETE statement without a WHERE predicate is sent to the database.
C4_NoUnscopedMutation ==
    \A i \in 1..Len(sent) : IsMutation(sent[i].text) => ~Unscoped(sent[i].text)

\* C4 (amended): every UPDATE or DELETE statement sent by a tool other than
\* execute_custom_query with a query_type other than SELECT carries WHERE
\* followed by the caller's where_clause, which is not empty.
C4_NoUnscopedMutationByBuilders ==
    (call.tool = "execute_custom_query" => CustomIsSelect(call))
    => \A i \in 1..Len(sent) :
          IsMutation(sent[i].text)
          => /\ ~Unscoped(sent[i].text)
             /\ call.tool \in {"update_records", "delete_records"}
             /\ TruthyStr(call.where_clause)
             /\ call.tool = "delete_records"
                => Contains(sent[i].text, " WHERE " \o call.where_clause[1])

C4_Witness ==
    /\ call.tool = "delete_records"
    /\ Len(sent) = 1 /\ IsMutation(sent[1].text)
    /\ result.kind = "ok" /\ result.body.rows_affected = 1

\* C5: insert_record and update_records raise the validation error when data
\* is the empty map, whatever the other parameters, before any connection is
\* acquired or statement sent; the database is as it was.
C5_EmptyDataRejected ==
    [][(call'.tool \in {"insert_record", "update_records"} /\ call'.data = <<>>)
       => /\ result'.kind = "ValueError"
          /\ result'.body = "Data dictionary cannot be empty"
          /\ acquired' = 0
          /\ sent' = <<>>
          /\ db' = db]_vars

C5_Witness ==
    /\ call.tool = "insert_record" /\ call.data = <<>>
    /\ call.schema = "public" /\ call.return_record
    /\ result.kind = "ValueError"
    /\ db.table # <<>>

\* C6: execute_custom_query raises the validation error and executes nothing
\* when the query is empty or blank, or when query_type is SELECT and the query,
\* trimmed and upper-cased, does not begin with SELECT ('DELETE FROM items' with
\* query_type 'SELECT' among them: the table is unchanged); with any other
\* query_type the text goes to the database as given, as a command.
C6_CustomQueryGuard ==
    [][call'.tool = "execute_custom_query"
       => LET blank == \A i \in 1..Len(call'.query) : IsSpace(SubSeq(call'.query, i, i))
              readOnly == Upper(call'.query_type) = "SELECT"
              select == StartsWith(Upper(Strip(call'.query)), "SELECT")
          IN  IF blank \/ (readOnly /\ ~select)
              THEN /\ result'.kind = "ValueError"
                   /\ result'.body = (IF blank THEN "Query cannot be empty"
                                      ELSE "Query must start with SELECT for query_type='SELECT'")
                   /\ sent' = <<>>
                   /\ acquired' = 0
                   /\ db' = db
              ELSE /\ result'.kind # "ValueError"
                   /\ Len(sent') = 1
                   /\ sent'[1].text = call'.query
                   /\ sent'[1].args = (IF call'.params = None THEN <<>> ELSE call'.params[1])
                   /\ sent'[1].via = (IF readOnly THEN "execute_query" ELSE "execute_command")]_vars

C6_Witness ==
    /\ call.tool = "execute_custom_query"
    /\ call.query = "DELETE FROM items" /\ call.query_type = "SELECT"
    /\ result.kind = "ValueError"
    /\ sent = <<>>
    /\ db.table # <<>>

\* The same call with every bound value (data values, where_params, limit,
\* offset) raised by d: keys, texts, lengths and presences as they were.
ShiftList(list, d) == [i \in 1..Len(list) |-> list[i] + d]
ShiftOpt(opt, d) == IF opt = None THEN None ELSE Some(opt[1] + d)
ShiftOptList(opt, d) == IF opt = None THEN None ELSE Some(ShiftList(opt[1], d))
ShiftData(data, d) == [i \in 1..Len(data) |-> <<data[i][1], data[i][2] + d>>]
Revalued(c, d) ==
    IF c.tool = "insert_record" THEN [c EXCEPT !.data = ShiftData(@, d)]
    ELSE IF c.tool = "select_records"
    THEN [c EXCEPT !.where_params = ShiftOptList(@, d), !.limit = ShiftOpt(@, d),
                   !.offset = ShiftOpt(@, d)]
    ELSE IF c.tool = "update_records"
    THEN [c EXCEPT !.data = ShiftData(@, d), !.where_params = ShiftList(@, d)]
    ELSE [c EXCEPT !.where_params = ShiftList(@, d)]

\* The statements a call that passes validation builds, in the order it sends them.
Built(c) ==
    IF c.tool = "insert_record"
    THEN <<[text |-> InsertQuery(c), args |-> InsertValues(c.data)]>>
    ELSE IF c.tool = "select_records"
    THEN <<[text |-> SelectQuery(c), args |-> SelectParams(c)],
           [text |-> CountQuery(c), args |-> CountParams(c)]>>
    ELSE IF c.tool = "update_records"
    THEN <<[text |-> UpdateQuery(c), args |-> UpdateValues(c)]>>
    ELSE <<[text |-> DeleteQuery(c), args |-> c.where_params]>>

Shifts == {1, 2}

\* C7: for insert_record, select_records, update_records and delete_records,
\* the text of every statement a call sent is, character for character, the
\* text the same call builds with other bound values (same keys, texts, list
\* lengths and presences), and the values it bound change with the call's.
C7_ValuesNeverInText ==
    call.tool \in {"insert_record", "select_records", "update_records", "delete_records"}
    => \A d \in Shifts : \A i \in 1..Len(sent) :
          /\ sent[i].text = Built(Revalued(call, d))[i].text
          /\ ShiftList(sent[i].args, d) = Built(Revalued(call, d))[i].args

C7_Witness ==
    /\ call.tool = "select_records"
    /\ call.where_clause = Some("id = $1 AND name = $2")
    /\ call.limit = Some(0) /\ call.offset = Some(1)
    /\ Len(sent) = 2
    /\ result.kind = "ok"

\* C8: insert_record with a data map of m >= 1 columns sends one INSERT that
\* lists the m columns in the map's order, holds exactly the placeholders
\* $1..$m in that order, binds the j-th value to $j, and ends in RETURNING *
\* exactly when return_record is true.
C8_InsertShape ==
    (call.tool = "insert_record" /\ call.data # <<>>)
    => /\ Len(sent) = 1
       /\ LET text == sent[1].text
              m == Len(call.data)
          IN  /\ StartsWith(Strip(text), "INSERT INTO " \o call.schema \o "." \o call.table_name \o " (")
              /\ Split(Between(text, "(", ")"), ", ") = [j \in 1..m |-> call.data[j][1]]
              /\ Split(Between(After(text, "VALUES"), "(", ")"), ", ")
                   = [j \in 1..m |-> "$" \o ToString(j)]
              /\ Placeholders(text) = [j \in 1..m |-> j]
              /\ sent[1].args = [j \in 1..m |-> call.data[j][2]]
              /\ EndsWith(text, " RETURNING *") <=> call.return_record
              /\ Contains(text, "RETURNING") <=> call.return_record

C8_Witness ==
    /\ call.tool = "insert_record"
    /\ Len(call.data) = 2 /\ call.data[1][1] = "description"
    /\ ~call.return_record
    /\ result.kind = "ok"

\* The placeholders of the row-fetch statement: those of the predicate, then
\* those of LIMIT and OFFSET.
SelectSent == call.tool = "select_records" /\ sent # <<>>
PredicatePlaceholders ==
    IF TruthyStr(call.where_clause) THEN Placeholders(call.where_clause[1]) ELSE <<>>
PaginationPlaceholders ==
    SubSeq(Placeholders(sent[1].text), Len(PredicatePlaceholders) + 1,
           Len(Placeholders(sent[1].text)))
PredicateValues ==
    IF TruthyStr(call.where_clause) /\ call.where_params # None THEN call.where_params[1] ELSE <<>>
PaginationValues ==
    (IF call.limit # None THEN <<call.limit[1]>> ELSE <<>>)
        \o (IF call.offset # None THEN <<call.offset[1]>> ELSE <<>>)
SelectNumbering ==
    /\ \A i \in 1..Len(PaginationPlaceholders) : \A j \in 1..Len(PredicatePlaceholders) :
          PaginationPlaceholders[i] > PredicatePlaceholders[j]
    /\ Len(PaginationPlaceholders) = Len(PaginationValues)
    /\ \A i, j \in 1..Len(PaginationPlaceholders) :
          i < j => PaginationPlaceholders[i] < PaginationPlaceholders[j]
    /\ Range(Placeholders(sent[1].text)) = 1..Len(sent[1].args)
    /\ sent[1].args = PredicateValues \o PaginationValues

\* C9 (as claimed): select_records numbers the LIMIT and OFFSET placeholders
\* after every placeholder the predicate uses, no number denoting both, and
\* binds one value per placeholder number of the text, predicate values first,
\* then limit, then offset, for every combination of where_clause, where_params,
\* limit and offset present or absent.
C9_PaginationAfterPredicate == SelectSent => SelectNumbering

\* C9 (amended): the same, for the calls whose where_params holds one value for
\* each placeholder $1..$k of a non-empty where_clause.
C9_PaginationAfterPredicateValues ==
    (/\ SelectSent
     /\ TruthyStr(call.where_clause)
        => Range(PredicatePlaceholders) = 1..Len(PredicateValues))
    => SelectNumbering

C9_Witness ==
    /\ call.tool = "select_records"
    /\ call.where_clause = Some("id = $1 AND name = $2")
    /\ call.where_params = Some(<<1, 1>>)
    /\ call.limit = Some(1) /\ call.offset = Some(1)
    /\ Placeholders(sent[1].text) = <<1, 2, 3, 4>>
    /\ result.kind = "ok"

\* C10: the count statement of select_records carries the where_clause of the
\* row fetch, text and numbering, and exactly its predicate values; it has no
\* ORDER BY, LIMIT or OFFSET and none of their values, and no WHERE at all
\* when no predicate was supplied.
C10_CountSharesPredicate ==
    (call.tool = "select_records" /\ Len(sent) = 2)
    => LET row == sent[1]
           count == sent[2]
           paged == Len(PaginationValues)
       IN  /\ count.via = "execute_single"
           /\ StartsWith(count.text, "SELECT COUNT(*) as total FROM "
                                       \o call.schema \o "." \o call.table_name)
           /\ ~Contains(count.text, "ORDER BY")
           /\ ~Contains(count.text, "LIMIT")
           /\ ~Contains(count.text, "OFFSET")
           /\ IF TruthyStr(call.where_clause)
              THEN /\ After(count.text, " WHERE ") = call.where_clause[1]
                   /\ Before(After(row.text, " WHERE "), {" ORDER BY ", " LIMIT ", " OFFSET "})
                        = call.where_clause[1]
              ELSE ~Contains(count.text, "WHERE") /\ ~Contains(row.text, "WHERE")
           /\ count.args = SubSeq(row.args, 1, Len(row.args) - paged)
           /\ count.args = PredicateValues

C10_Witness ==
    /\ call.tool = "select_records"
    /\ call.where_clause = Some("id = $1")
    /\ call.order_by # None /\ call.limit # None /\ call.offset # None
    /\ Len(sent) = 2
    /\ result.kind = "ok" /\ result.body.total_count = 1

\* ---------------------------------------------------------------- C11..C20

Finished(p) == procs[p].pc = "done"

\* C11: in every select_records response total_count >= returned_count, also
\* when other invocations insert or delete rows between the call's row fetch
\* and its count, which run on two acquisitions and in no common transaction.
C11_TotalCoversReturned ==
    \A p \in Invocations :
        (Finished(p) /\ procs[p].c.tool = "select_records" /\ procs[p].out.kind = "ok")
        => procs[p].out.body.total_count >= procs[p].out.body.returned_count

\* The connections checked out: those held by an invocation inside `async with`.
Held == {procs[p].conn : p \in Invocations} \ {0}

\* C13: every connection an invocation acquires is released on every exit path
\* (return, database failure, cancellation): the connections out of the pool
\* are exactly those of the invocations inside `async with`, none when every
\* invocation has finished, and no connection is held by two invocations.
C13_ConnectionsReleased ==
    /\ pool = Conns \ Held
    /\ \A p, q \in Invocations :
          (p # q /\ procs[p].conn # 0) => procs[p].conn # procs[q].conn
    /\ \A p \in Invocations : procs[p].pc \in {"idle", "acquire", "done"} => procs[p].conn = 0
    /\ (\A p \in Invocations : procs[p].pc \in {"idle", "done"}) => pool = Conns

C13_Witness ==
    /\ \A p \in Invocations : Finished(p)
    /\ \E p, q \in Invocations :
          /\ procs[p].out.cause = "cancel" /\ procs[p].replies # <<>>
          /\ procs[q].out.cause = "statement"
    /\ pool = Conns

\* C14: a failure to acquire a connection (pool exhaustion, acquire timeout)
\* reaches the caller with an error kind other than the kind reported when the
\* backend rejects a statement.
C14_ResourceErrorDistinct ==
    \A p, q \in Invocations :
        (/\ Finished(p) /\ procs[p].out.cause = "acquire"
         /\ Finished(q) /\ procs[q].out.cause = "statement")
        => procs[p].out.kind # procs[q].out.kind

\* What the predicates the calls use mean, row by row.
Satisfies(row, where_clause, where_params) ==
    IF ~TruthyStr(where_clause) THEN TRUE
    ELSE IF where_clause[1] = "id = $1" THEN row.id = where_params[1][1]
    ELSE row.id = where_params[1][1] /\ row.name = where_params[1][2]

\* C12: for the table as it is and a fixed predicate, total_count is the
\* number of rows that match the predicate, and every choice of limit and
\* offset, present or absent, limit 0 included, yields the same total_count.
C12_TotalIsMatchCount ==
    (call.tool = "select_records" /\ result.kind = "ok")
    => /\ result.body.total_count
            = Cardinality({i \in 1..Len(db.table) :
                              Satisfies(db.table[i], call.where_clause, call.where_params)})
       /\ \A limit \in Limits, offset \in Offsets :
             LET other == select_records([call EXCEPT !.limit = limit, !.offset = offset], db)
             IN  other.kind = "ok" => other.body.total_count = result.body.total_count

C12_Witness ==
    /\ call.tool = "select_records"
    /\ call.where_clause = Some("id = $1") /\ call.limit = Some(0)
    /\ result.kind = "ok"
    /\ result.body.total_count = 1 /\ result.body.returned_count = 0

\* Whether the backend rejects the i-th statement the call sent (a select
\* leaves the database as it was).
Rejected(i) == Backend(db, sent[i].text, sent[i].args).err

\* C15: select_records is all or nothing: when its row fetch fails the count
\* is not sent, when either statement fails the call fails with that error
\* and returns no response, a response carries the total the count statement
\* returned, and no statement is sent twice.
C15_SelectAllOrNothing ==
    call.tool = "select_records"
    => /\ Len(sent) \in {1, 2}
       /\ sent[1].via = "execute_query"
       /\ Len(sent) = 2 => sent[2].via = "execute_single" /\ sent[2].text # sent[1].text
       /\ Rejected(1) => Len(sent) = 1
       /\ (\E i \in 1..Len(sent) : Rejected(i))
             => result.kind = "DatabaseError" /\ result.body = ""
       /\ result.kind = "ok"
             => /\ Len(sent) = 2
                /\ \A i \in 1..2 : ~Rejected(i)
                /\ result.body.total_count
                     = Backend(db, sent[2].text, sent[2].args).rows[1][1][2]
                /\ result.body.returned_count = Len(result.body.records)

C15_Witness ==
    /\ call.tool = "select_records"
    /\ Len(sent) = 2
    /\ ~Rejected(1) /\ Rejected(2)
    /\ result.kind = "DatabaseError"

\* C19: after insert_record with return_record=true succeeds, select_records
\* on the same table with where_clause 'id = $1' and the returned id, no limit
\* or offset and nothing in between, returns returned_count 1 and one record
\* equal field for field to the record the insert returned.
C19_InsertSelectRoundTrip ==
    (/\ call.tool = "insert_record" /\ call.return_record
     /\ result.kind = "ok" /\ result.body.success)
    => LET back == select_records(
                      [tool |-> "select_records", table_name |-> call.table_name,
                       schema |-> call.schema, columns |-> None,
                       where_clause |-> Some("id = $1"),
                       where_params |-> Some(<<Get(result.body.record, "id")>>),
                       order_by |-> None, limit |-> None, offset |-> None], db)
       IN  /\ back.kind = "ok"
           /\ back.body.returned_count = 1
           /\ back.body.total_count = 1
           /\ back.body.records = <<result.body.record>>

C19_Witness ==
    /\ call.tool = "insert_record" /\ call.return_record
    /\ Len(call.data) = 2
    /\ result.kind = "ok" /\ result.body.success
    /\ Get(result.body.record, "name") = 0

\* The named table has no row in pg_tables.
Absent(c) ==
    \A i \in 1..Len(TableRows) :
        TableRows[i].schemaname # c.schema \/ TableRows[i].tablename # c.table_name

\* C16: get_table_statistics on a table that is absent from the schema fails
\* with the not-found error "Table '<schema>.<table>' not found", never with a
\* generic database error.
C16_StatisticsNotFound ==
    (call.tool = "get_table_statistics" /\ Absent(call))
        => (result.kind = "ValueError" /\ result.body = NotFound(call))

\* C17: describe_table fails with the not-found error whenever its columns
\* statement returns no rows, whatever the constraints and indexes statements
\* do, and returns a result only when there is at least one column row.
C17_DescribeNotFound ==
    call.tool = "describe_table" =>
        LET columns == Backend(db, sent[1].text, sent[1].args).rows
        IN  /\ columns = <<>> => (result.kind = "ValueError" /\ result.body = NotFound(call))
            /\ result.kind = "ok" => columns # <<>>

\* A date/time value as the driver hands it over, at any depth of value.
RECURSIVE HasNativeTemporal(_)
HasNativeTemporal(value) ==
    \/ value.tag \in {"datetime", "date", "time"}
    \/ \E i \in 1..Len(value.items) : HasNativeTemporal(value.items[i])

\* C18: a value that has passed through serialize_value on its way into a
\* response holds no driver-native date/time value at any nesting depth of
\* sequences and maps.
C18_NoNativeTemporal ==
    call.tool = "serialize_value" => ~HasNativeTemporal(result.body)

\* The items table holds a row with this id.
Present(d, id) == \E i \in 1..Len(d.table) : d.table[i].id = id

\* The not-found error of the item methods.
IsItemNotFound(res, id) ==
    res.kind = "Error" /\ res.body = [code |-> -32602, message |-> ItemNotFound(id)]

\* C20: delete_item on an id that is not in the items table returns the
\* not-found error (code -32602) every time, leaves the table unchanged and
\* never returns success; a delete_item that succeeds removes the row, and
\* on the table it leaves a following delete_item or read_item of the same id
\* returns the not-found error.
C20_DeleteNotFoundIdempotent ==
    [][(call = Idle /\ call'.tool = "delete_item") =>
          IF Present(db, call'.id)
          THEN /\ result' = [kind |-> "Success", body |-> << <<"id", call'.id>> >>]
               /\ ~Present(db', call'.id)
               /\ IsItemNotFound(delete_item(call', db'), call'.id)
               /\ delete_item(call', db').db = db'
               /\ IsItemNotFound(read_item([tool |-> "read_item", id |-> call'.id], db'), call'.id)
          ELSE /\ IsItemNotFound(result', call'.id)
               /\ db' = db]_vars

\* A delete_item of an id that a create_item handed out and an earlier
\* delete_item removed: the repeated delete answers not-found.
C20_Witness ==
    /\ call.tool = "delete_item"
    /\ call.id < db.nextId
    /\ ~Present(db, call.id)
    /\ IsItemNotFound(result, call.id)

\* ---------------------------------------------------------------- C21..C30
\* What the predicates that update_records is called with mean, row by row;
\* a column that is NULL equals nothing.
UpdateMatches(row, c) ==
    LET p == c.where_params
    IN  CASE c.where_clause = Some("id = $1") -> row.id = p[1]
          [] c.where_clause = Some("id = $1 AND name = $2") ->
                row.id = p[1] /\ row.name # Null /\ row.name = p[2]
          [] c.where_clause = Some("name = $1 OR description = $1") ->
                (row.name # Null /\ row.name = p[1]) \/ (row.description # Null /\ row.description = p[1])
UpdateMeaningful(c) ==
    /\ c.data # <<>>
    /\ c.schema = "public"
    /\ c.where_clause \in {Some("id = $1"), Some("id = $1 AND name = $2"),
                           Some("name = $1 OR description = $1")}

\* C21: update_records on an existing table with a predicate answers
\* success == true with rows_affected equal to the number of rows the
\* predicate matches, for both values of return_records; when it matches none
\* that is rows_affected == 0, an empty records list when return_records is
\* true, and a table left as it was.
C21_UpdateCountsMatches ==
    [][(call = Idle /\ call'.tool = "update_records" /\ UpdateMeaningful(call')) =>
          LET hit == SelectSeq(db.table, LAMBDA row : UpdateMatches(row, call'))
          IN  /\ result'.kind = "ok"
              /\ result'.body.success
              /\ result'.body.rows_affected = Len(hit)
              /\ call'.return_records => Len(result'.body.records) = Len(hit)
              /\ hit = <<>> => db' = db]_vars

\* C22: update_item with a name or a description and an id that is not in the
\* items table answers the error -32602 'Item with id <id> not found', no
\* result, and changes no row.
C22_UpdateItemNotFound ==
    [][(/\ call = Idle /\ call'.tool = "update_item"
        /\ (call'.name # None \/ call'.description # None)
        /\ ~Present(db, call'.id))
          => (IsItemNotFound(result', call'.id) /\ db' = db)]_vars

\* An update_item that missed while the table holds other items.
C22_Witness ==
    /\ call.tool = "update_item"
    /\ call.name # None
    /\ db.table # <<>>
    /\ ~Present(db, call.id)
    /\ IsItemNotFound(result, call.id)

\* C23: update_item with neither name nor description answers the error
\* -32602 'At least one of ... must be provided' for every id, in the table or
\* not, acquires no connection, sends no statement and leaves the table as it
\* was.
C23_UpdateItemNeedsField ==
    [][(/\ call = Idle /\ call'.tool = "update_item"
        /\ call'.name = None /\ call'.description = None)
          => /\ result'.kind = "Error"
             /\ result'.body = [code |-> -32602,
                                message |-> "At least one of 'name' or 'description' must be provided"]
             /\ acquired' = 0
             /\ sent' = <<>>
             /\ db' = db]_vars

\* The rejected call names an item that exists.
C23_Witness ==
    /\ call.tool = "update_item"
    /\ call.name = None /\ call.description = None
    /\ Present(db, call.id)
    /\ result.kind = "Error"
    /\ acquired = 0

\* The row as update_item leaves it: the supplied fields replaced.
Updated(row, c) ==
    [id |-> row.id,
     name |-> IF c.name # None THEN c.name[1] ELSE row.name,
     description |-> IF c.description # None THEN c.description[1] ELSE row.description]

\* C24: update_item on an item that exists replaces the supplied fields of
\* that row and nothing else: a field not supplied and the id keep their
\* values, every other row is as it was, and the result is the row after the
\* update.
C24_UpdateItemFrame ==
    [][(/\ call = Idle /\ call'.tool = "update_item"
        /\ (call'.name # None \/ call'.description # None)
        /\ Present(db, call'.id))
          => /\ result'.kind = "Success"
             /\ db'.nextId = db.nextId
             /\ db'.table = [i \in 1..Len(db.table) |->
                                IF db.table[i].id = call'.id
                                THEN Updated(db.table[i], call') ELSE db.table[i]]
             /\ \A i \in 1..Len(db.table) :
                   db.table[i].id = call'.id =>
                       result'.body = RowDict(Updated(db.table[i], call'), Columns)]_vars

\* A description-only update of one item while another item is in the table.
C24_Witness ==
    /\ call.tool = "update_item"
    /\ call.name = None /\ call.description # None
    /\ result.kind = "Success"
    /\ Len(db.table) >= 2

\* The name contains the filter; no filter and an empty filter leave every row in.
FilterAdmits(row, name_filter) ==
    \/ name_filter = None
    \/ name_filter = Some("")
    \/ row.name # Null /\ Contains(ToString(row.name), name_filter[1])

\* The ids of a page of items.
PageIds(items) == {Get(items[i], "id") : i \in 1..Len(items)}

\* C25: for the table as it is and a name_filter, the page query_items returns
\* for (limit, offset) is the slice [offset, offset + limit) of the matching
\* rows in ascending id order: at most limit items, all matching the filter,
\* ids ascending; total is the number of matching rows, so at least the length
\* of the page; and the page shares no id with the page of a disjoint offset
\* range.
C25_QueryItemsPages ==
    call.tool = "query_items" =>
        LET hit == SelectSeq(db.table, LAMBDA row : FilterAdmits(row, call.name_filter))
            to == IF call.offset + call.limit < Len(hit) THEN call.offset + call.limit ELSE Len(hit)
            slice == SubSeq(hit, call.offset + 1, to)
            items == result.body.items
        IN  /\ result.kind = "Success"
            /\ Len(items) <= call.limit
            /\ items = [i \in 1..Len(slice) |-> RowDict(slice[i], Columns)]
            /\ \A i \in 1..Len(items) : \A j \in 1..Len(items) :
                  i < j => Get(items[i], "id") < Get(items[j], "id")
            /\ result.body.total = Len(hit)
            /\ result.body.total >= Len(items)
            /\ result.body.limit = call.limit /\ result.body.offset = call.offset
            /\ \A o \in QueryOffsets :
                  (o >= call.offset + call.limit \/ call.offset >= o + call.limit)
                      => PageIds(query_items([call EXCEPT !.offset = o], db).body.items)
                             \cap PageIds(items) = {}

\* The second page of one item each, of two items that match the filter.
C25_Witness ==
    /\ call.tool = "query_items"
    /\ call.name_filter = Some("1")
    /\ call.limit = 1 /\ call.offset = 1
    /\ result.kind = "Success"
    /\ Len(result.body.items) = 1
    /\ result.body.total = 2

\* ------------------------------------------------- db/connection.py
\* The module keeps one handle, _pool.  init_db_pool and close_db_pool each
\* test it, await the driver, and only then assign it; other coroutines of
\* the event loop run during the await.  get_db_pool never awaits.

\* get_db_pool: the handle, or RuntimeError when there is none.
get_db_pool_Unchecked(h) ==
    [kind |-> "returned", body |-> h]

get_db_pool(h) ==
    IF h = None
    THEN [kind |-> "RuntimeError", body |-> None]
    ELSE [kind |-> "returned", body |-> h]

\* What the other variables see of a lifecycle step: who called what, and
\* what the call gave back (kind "awaiting" while it is suspended).
Observe(tool, t, r) ==
    /\ call' = [tool |-> tool, task |-> t]
    /\ result' = r
    /\ UNCHANGED <<db, sent, acquired, procs, pool, lifespan>>

\* The pools being built by suspended init_db_pool calls.
Creating == {t \in Tasks : tasks[t].pc = "creating"}

\* init_db_pool up to its await: with a handle it returns it at once,
\* without one it starts create_pool.
InitCall(t) ==
    /\ tasks[t].pc = "idle"
    /\ IF handle = None
       THEN /\ Len(pools) + Cardinality(Creating) < MaxPools
            /\ tasks' = [tasks EXCEPT ![t].pc = "creating"]
            /\ Observe("init_db_pool", t, [kind |-> "awaiting", body |-> None])
       ELSE /\ tasks' = tasks
            /\ Observe("init_db_pool", t, [kind |-> "returned", body |-> handle])
    /\ UNCHANGED <<handle, pools>>

\* create_pool gives a pool: it is assigned to the handle and returned.
CreateDone(t) ==
    /\ tasks[t].pc = "creating"
    /\ pools' = Append(pools, "open")
    /\ handle' = Some(Len(pools) + 1)
    /\ tasks' = [tasks EXCEPT ![t] = IdleTask]
    /\ Observe("init_db_pool", t, [kind |-> "returned", body |-> Some(Len(pools) + 1)])

\* create_pool raises: the error is logged and raised again, nothing assigned.
CreateFails(t) ==
    /\ tasks[t].pc = "creating"
    /\ tasks' = [tasks EXCEPT ![t] = IdleTask]
    /\ Observe("init_db_pool", t, [kind |-> "raised", body |-> None])
    /\ UNCHANGED <<handle, pools>>

\* get_db_pool runs to its end in one step.
GetCall(t) ==
    /\ tasks[t].pc = "idle"
    /\ Observe("get_db_pool", t, get_db_pool(handle))
    /\ UNCHANGED <<handle, pools, tasks>>

\* close_db_pool up to its await: without a handle it returns at once,
\* with one it starts closing the pool the handle names.
CloseCall(t) ==
    /\ tasks[t].pc = "idle"
    /\ IF handle = None
       THEN /\ tasks' = tasks
            /\ Observe("close_db_pool", t, [kind |-> "returned", body |-> None])
       ELSE /\ tasks' = [tasks EXCEPT ![t] = [pc |-> "closing", pool |-> handle[1]]]
            /\ Observe("close_db_pool", t, [kind |-> "awaiting", body |-> None])
    /\ UNCHANGED <<handle, pools>>

\* The pool is closed: the handle is reset, whatever it names by now.
CloseDone(t) ==
    /\ tasks[t].pc = "closing"
    /\ pools' = [pools EXCEPT ![tasks[t].pool] = "closed"]
    /\ handle' = None
    /\ tasks' = [tasks EXCEPT ![t] = IdleTask]
    /\ Observe("close_db_pool", t, [kind |-> "returned", body |-> None])

ConnNext ==
    \/ \E t \in Tasks : InitCall(t)
    \/ \E t \in Tasks : CreateDone(t)
    \/ \E t \in Tasks : CreateFails(t)
    \/ \E t \in Tasks : GetCall(t)
    \/ \E t \in Tasks : CloseCall(t)
    \/ \E t \in Tasks : CloseDone(t)

ConnSpec == Init /\ [][ConnNext]_vars

\* ---- C26..C28: the pool handle

\* C26: get_db_pool raises RuntimeError exactly when there is no handle
\* (before any successful init_db_pool, after a failed one, after
\* close_db_pool) and otherwise returns the pool init_db_pool assigned;
\* init_db_pool with a handle returns it and builds nothing; close_db_pool
\* without a handle changes nothing.
C26_HandleLifecycle ==
    [][ /\ pools = <<>> => handle = None
        /\ call'.tool = "get_db_pool" =>
              /\ result'.kind = (IF handle = None THEN "RuntimeError" ELSE "returned")
              /\ result'.body = handle
              /\ handle # None => handle[1] \in DOMAIN pools
        /\ (call'.tool = "init_db_pool" /\ result'.kind = "raised") =>
              /\ handle' = handle
              /\ pools' = pools
        /\ (call'.tool = "close_db_pool" /\ result'.kind = "returned") =>
              /\ handle' = None
              /\ get_db_pool(handle').kind = "RuntimeError"
        /\ (call'.tool = "init_db_pool" /\ tasks[call'.task].pc = "idle" /\ handle # None) =>
              /\ result' = [kind |-> "returned", body |-> handle]
              /\ UNCHANGED <<handle, pools, tasks>>
        /\ (call'.tool = "close_db_pool" /\ tasks[call'.task].pc = "idle" /\ handle = None) =>
              UNCHANGED <<handle, pools, tasks>>
      ]_vars

\* A pool was built and closed, and get_db_pool then raised.
C26_Witness ==
    /\ call.tool = "get_db_pool"
    /\ result.kind = "RuntimeError"
    /\ pools # <<>>
    /\ \A i \in DOMAIN pools : pools[i] = "closed"

\* C28: init_db_pool builds at most one pool however its calls interleave:
\* every open pool is the one the handle names.
C28_OnePoolPerHandle ==
    \A i \in DOMAIN pools : pools[i] = "open" => handle = Some(i)

\* ------------------------------------------------- server_lifespan
\* The generator behind the server's lifespan: it validates the environment,
\* builds the pool, tests it, yields the context, and closes the pool in its
\* finally block.  The server may be started again after a run has ended.

RequiredVars == {"PG_USER", "PG_PASSWORD", "PG_DATABASE"}

\* What an await may raise; CancelledError is no subclass of Exception.
Raisable == {"PostgresError", "OSError", "CancelledError"}
IsException(e) == e # "CancelledError"

\* An exception leaves the try block: `except Exception` takes it if it is
\* one, the finally block runs either way.
Raise(l, e) ==
    [l EXCEPT !.exc = e, !.pc = IF IsException(e) THEN "except" ELSE "finally"]

\* The step of server_lifespan: every other variable is left alone.
LifespanStep ==
    UNCHANGED <<db, call, result, sent, acquired, procs, pool, handle, tasks>>

\* The server starts: a missing variable raises ValueError before the try.
Start(env) ==
    /\ lifespan.pc = "stopped"
    /\ Len(pools) < MaxPools
    /\ lifespan' = IF RequiredVars \ env # {}
                   THEN [Stopped EXCEPT !.env = env, !.exc = "ValueError"]
                   ELSE [Stopped EXCEPT !.env = env, !.pc = "create"]
    /\ pools' = pools
    /\ LifespanStep

\* create_pool returns: the local `pool` is bound.
PoolCreated ==
    /\ lifespan.pc = "create"
    /\ pools' = Append(pools, "open")
    /\ lifespan' = [lifespan EXCEPT !.pc = "test", !.pool = Some(Len(pools) + 1)]
    /\ LifespanStep

\* create_pool raises: `pool` stays unbound.
PoolFails(e) ==
    /\ lifespan.pc = "create"
    /\ lifespan' = Raise(lifespan, e)
    /\ pools' = pools
    /\ LifespanStep

\* SELECT 1 succeeds: the context is yielded and the server runs.
TestPasses ==
    /\ lifespan.pc = "test"
    /\ lifespan' = [lifespan EXCEPT !.pc = "serving", !.yielded = TRUE]
    /\ pools' = pools
    /\ LifespanStep

\* Acquiring the connection or SELECT 1 raises.
TestFails(e) ==
    /\ lifespan.pc = "test"
    /\ lifespan' = Raise(lifespan, e)
    /\ pools' = pools
    /\ LifespanStep

\* The server shuts down: the generator is resumed after the yield.
Shutdown ==
    /\ lifespan.pc = "serving"
    /\ lifespan' = [lifespan EXCEPT !.pc = "finally"]
    /\ pools' = pools
    /\ LifespanStep

\* The running server raises: the exception is thrown in at the yield.
Throw(e) ==
    /\ lifespan.pc = "serving"
    /\ lifespan' = Raise(lifespan, e)
    /\ pools' = pools
    /\ LifespanStep

\* except Exception: the error is logged and raised again.
Except ==
    /\ lifespan.pc = "except"
    /\ lifespan' = [lifespan EXCEPT !.pc = "finally"]
    /\ pools' = pools
    /\ LifespanStep

\* finally: the pool is closed if the local `pool` is bound.
CloseIfBound_OnSuccess(l, ps) ==
    IF l.pool # None /\ l.exc = "" THEN [ps EXCEPT ![l.pool[1]] = "closed"] ELSE ps

CloseIfBound(l, ps) ==
    IF l.pool # None THEN [ps EXCEPT ![l.pool[1]] = "closed"] ELSE ps

Finally ==
    /\ lifespan.pc = "finally"
    /\ pools' = CloseIfBound(lifespan, pools)
    /\ lifespan' = [lifespan EXCEPT !.pc = "stopped"]
    /\ LifespanStep

LifeNext ==
    \/ \E env \in SUBSET RequiredVars : Start(env)
    \/ PoolCreated
    \/ \E e \in Raisable : PoolFails(e)
    \/ TestPasses
    \/ \E e \in Raisable : TestFails(e)
    \/ Shutdown
    \/ \E e \in Raisable : Throw(e)
    \/ Except
    \/ Finally

LifeSpec == Init /\ [][LifeNext]_vars

\* ---- C30: server_lifespan closes what it built

\* C30: when server_lifespan has ended, by shutdown, by a failed SELECT 1 or
\* by an exception thrown in while serving, every pool it built is closed;
\* and a run that bound no pool (a variable missing, create_pool failed)
\* built none, closed none and never yielded the context.
C30_LifespanClosesPools ==
    [][ /\ lifespan'.pc = "stopped" => \A i \in DOMAIN pools' : pools'[i] = "closed"
        /\ (lifespan.pool = None /\ lifespan'.pool = None) =>
              /\ pools' = pools
              /\ ~lifespan'.yielded
        /\ lifespan'.yielded => lifespan'.pool # None
      ]_vars

\* A run whose SELECT 1 failed has ended with its pool closed.
C30_Witness ==
    /\ lifespan.pc = "stopped"
    /\ lifespan.exc # ""
    /\ ~lifespan.yielded
    /\ lifespan.pool # None
    /\ pools[lifespan.pool[1]] = "closed"

\* ---- C29: renumbering where it is exact

\* The where_clause references exactly $1..$k, k = len(where_params), and
\* the data map has n >= k columns with n + k <= 9.
ExactRegion(c) ==
    /\ Range(Placeholders(c.where_clause[1])) = 1..Len(c.where_params)
    /\ Len(c.data) >= Len(c.where_params)
    /\ Len(c.data) + Len(c.where_params) <= 9

\* C29: update_records in that region: the WHERE text sent is the
\* where_clause with each $j renamed to $(n+j) and no other character changed.
C29_RenumberingExact ==
    (UpdateBuilt /\ ExactRegion(call))
    => SentUpdateWhere(sent[1].text)
         = TokenRenumber(call.where_clause[1], Len(call.data), Len(call.where_params))

\* Two columns and a predicate over $1 and $2: the text sent names $3 and $4.
C29_Witness ==
    /\ UpdateBuilt
    /\ ExactRegion(call)
    /\ Len(call.data) = 2
    /\ call.where_clause = Some("id = $1 AND name = $2")
    /\ SentUpdateWhere(sent[1].text) = "id = $3 AND name = $4"

\* ---- C27: one connection at a time

\* C27: an invocation acquires a connection only when it holds none, so it
\* never holds two; and with the event loop scheduling fairly, every invocation
\* that was called completes, however many wait for the pool.
C27_OneConnectionAtATime ==
    /\ [][\A p \in Invocations :
            (procs'[p].conn # 0 /\ procs'[p].conn # procs[p].conn) => procs[p].conn = 0]_vars
    /\ [](\A p \in Invocations : procs[p].pc = "acquire" => procs[p].conn = 0)
    /\ \A p \in Invocations : (procs[p].pc # "idle") ~> (procs[p].pc = "done")

\* Every invocation has completed: a get_table_statistics with its three
\* statements answered and a get_server_info with its two, over one pool.
C27_Witness ==
    /\ \A p \in Invocations : Finished(p)
    /\ \E p \in Invocations :
          /\ procs[p].c.tool = "get_table_statistics"
          /\ Len(procs[p].replies) = 3
          /\ procs[p].out.kind = "ok"
    /\ \E p \in Invocations :
          /\ procs[p].c.tool = "get_server_info"
          /\ procs[p].out.kind = "ok"
          /\ Len(procs[p].replies) = 2

====
